---- MODULE Spec2Model ----
\* Colour/state synchronisation core of the highlighter extension:
\* src/background.js (the background coordinator) and the custom-colour
\* write paths of src/shortcuts-settings.js (the options page).
\*
\* Strings are sequences of tokens (<<"#","0","a">> is "#0a",
\* <<"custom_", 21>> is `custom_${21}`), so that case conversion, prefixing
\* and comparison are computed and not assumed.
\*
\* Every asynchronous function is a process in a slot of `req`; its `pc` names
\* the platform call it awaits. A storage call takes two steps (the call takes
\* effect in the browser, then the continuation runs); the other platform
\* calls take effect and continue in one step. The browser carries out the
\* storage calls of one page, and its menu calls, in the order they were made.
EXTENDS Naturals, Sequences, FiniteSets

\* ---------------------------------------------------------------- bounds
MaxRequests == 2   \* requests and options-page operations started in one run
MaxInFlight == 2   \* handler slots: requests that can be in flight together
MaxTicks == 1      \* milliseconds that pass during one run
NumTabs == 2       \* open tabs

\* ------------------------------------------------------ program constants
MAX_CUSTOM_COLORS == 20

LEGACY_COMMAND_NAMES ==
    << <<"highlight_", "yellow">>, <<"highlight_", "green">>,
       <<"highlight_", "blue">>, <<"highlight_", "pink">>,
       <<"highlight_", "orange">> >>

VARIABLES
    storage,          \* storage.local key customColors
    currentColors,    \* the in-memory mirror of the background script
    storedShortcuts,  \* shortcut snapshot of the last menu build
    menus,            \* the browser's context-menu entries, in creation order
    bindings,         \* the browser's commands: name -> bound key or <<>>
    listeners,        \* the open tabs whose page listens for messages
    clock,            \* the last value Date.now() returned
    inbox,            \* customColorsUpdated messages sent and not yet received
    req,              \* slot -> the asynchronous function running in it
    started,          \* requests started so far
    local,            \* storage.local, the keys other than customColors
    calls             \* slots with a storage or menu call made, oldest first

vars == <<storage, currentColors, storedShortcuts, menus, bindings, listeners,
          clock, inbox, req, started, local, calls>>

Slots == 1..MaxInFlight

\* ------------------------------------------------------------- strings
ToLowerCaseChar(c) ==
    CASE c = "A" -> "a" [] c = "B" -> "b" [] c = "C" -> "c"
      [] c = "D" -> "d" [] c = "E" -> "e" [] c = "F" -> "f"
      [] OTHER -> c

ToUpperCaseChar(c) ==
    CASE c = "a" -> "A" [] c = "b" -> "B" [] c = "c" -> "C"
      [] c = "d" -> "D" [] c = "e" -> "E" [] c = "f" -> "F"
      [] OTHER -> c

ToLowerCase(str) == [k \in 1..Len(str) |-> ToLowerCaseChar(str[k])]

ToUpperCase(str) == [k \in 1..Len(str) |-> ToUpperCaseChar(str[k])]

\* `custom_${Date.now()}`
CustomId(now) == <<"custom_", now>>

\* `highlight-${color.id}`
MenuId(id) == <<"highlight-">> \o id

ParentMenuId == <<"highlight-", "text">>

\* ------------------------------------------------------- colour records
NewColorObj(now, colorNumber, color) ==
    [id |-> CustomId(now), nameKey |-> "customColor",
     colorNumber |-> colorNumber, color |-> color]

\* A stored object is a record; a property it lacks reads as undefined.
\* c.colorNumber, with 0 for undefined (both are falsy)
ColorNumberOf(c) == IF "colorNumber" \in DOMAIN c THEN c.colorNumber ELSE 0

\* `${c.id}`
IdOf(c) == IF "id" \in DOMAIN c THEN c.id ELSE <<"undefined">>

\* c.id === colorId
IdIs(c, colorId) == "id" \in DOMAIN c /\ c.id = colorId

\* c.color, as it is put into a message
ColorOf(c) == IF "color" \in DOMAIN c THEN c.color ELSE <<"undefined">>

\* c[field] = value
Assign(c, field, value) ==
    [f \in DOMAIN c \cup {field} |-> IF f = field THEN value ELSE c[f]]

\* mutant: the duplicate check compares the colours as written
ExistsCaseSensitive(customColors, value) ==
    \E k \in 1..Len(customColors) : customColors[k].color = value

\* customColors.some(c => c.color.toLowerCase() === value.toLowerCase())
\* returns true: a record matches and every record before it has a color
Exists(customColors, value) ==
    \E k \in 1..Len(customColors) :
        /\ \A j \in 1..k : "color" \in DOMAIN customColors[j]
        /\ ToLowerCase(customColors[k].color) = ToLowerCase(value)

\* the same call throws a TypeError: it reaches a record without a color
\* (undefined.toLowerCase()) before it reaches a match
ExistsThrows(customColors, value) ==
    \E k \in 1..Len(customColors) :
        /\ "color" \notin DOMAIN customColors[k]
        /\ \A j \in 1..(k - 1) :
              /\ "color" \in DOMAIN customColors[j]
              /\ ToLowerCase(customColors[j].color) # ToLowerCase(value)

\* mutant: the limit is checked with > in place of >=
LimitReachedOffByOne(customColors) == Len(customColors) > MAX_CUSTOM_COLORS

\* customColors.length >= MAX_CUSTOM_COLORS
LimitReached(customColors) == Len(customColors) >= MAX_CUSTOM_COLORS

\* mutant: an id that is not found selects the last record (splice(-1, 1))
FindIndexOrLast(customColors, colorId) ==
    IF \E k \in 1..Len(customColors) : customColors[k].id = colorId
    THEN CHOOSE k \in 1..Len(customColors) :
             /\ customColors[k].id = colorId
             /\ \A j \in 1..(k - 1) : customColors[j].id # colorId
    ELSE Len(customColors)

\* customColors.findIndex(c => c.id === colorId), 1-based; 0 is -1
FindIndex(customColors, colorId) ==
    IF \E k \in 1..Len(customColors) : IdIs(customColors[k], colorId)
    THEN CHOOSE k \in 1..Len(customColors) :
             /\ IdIs(customColors[k], colorId)
             /\ \A j \in 1..(k - 1) : ~IdIs(customColors[j], colorId)
    ELSE 0

\* mutant: the record after the one found is removed
SpliceNext(customColors, k) ==
    [j \in 1..(Len(customColors) - 1) |->
        IF j <= k THEN customColors[j] ELSE customColors[j + 1]]

\* customColors.splice(colorIndex, 1)
Splice(customColors, k) ==
    [j \in 1..(Len(customColors) - 1) |->
        IF j < k THEN customColors[j] ELSE customColors[j + 1]]

\* mutant: the remaining records keep their numbers
RenumberKeepsNumbers(customColors) == customColors

\* customColors.forEach((color, index) => { color.colorNumber = index + 1 })
Renumber(customColors) ==
    [j \in 1..Len(customColors) |-> Assign(customColors[j], "colorNumber", j)]

\* customColors.filter(c => c.id !== colorId)
FilterOutId(customColors, colorId) ==
    SelectSeq(customColors, LAMBDA c : ~IdIs(c, colorId))

\* mutant: the 0-based index is assigned
AssignMissingNumbersZeroBased(customColors) ==
    [j \in 1..Len(customColors) |->
        IF customColors[j].colorNumber = 0
        THEN [customColors[j] EXCEPT !.colorNumber = j - 1]
        ELSE customColors[j]]

\* loadCustomColors: if (!c.colorNumber) c.colorNumber = index + 1
AssignMissingNumbers(customColors) ==
    [j \in 1..Len(customColors) |->
        IF ColorNumberOf(customColors[j]) = 0
        THEN Assign(customColors[j], "colorNumber", j)
        ELSE customColors[j]]

\* ------------------------------------------------------------ shortcuts
CustomCommandName(slot) == <<"highlight_", "custom_", slot>>

Commands ==
    {LEGACY_COMMAND_NAMES[k] : k \in 1..Len(LEGACY_COMMAND_NAMES)}
        \cup {CustomCommandName(k) : k \in 1..5}
        \cup {<<"_execute_action">>}

\* command.name.startsWith('highlight_') && command.shortcut
\* shortcuts[command.name] = ` (${command.shortcut})`
getCurrentShortcuts(commands) ==
    [name \in {c \in DOMAIN commands :
                  c[1] = "highlight_" /\ commands[c] # <<>>}
        |-> <<" (">> \o commands[name] \o <<")">>]

\* mutant: the custom slots are counted from 0
CommandNameAtSlotFromZero(i) ==
    IF i < 5 THEN LEGACY_COMMAND_NAMES[i + 1]
    ELSE IF i < 10 THEN CustomCommandName(i - 5)
    ELSE <<>>

\* i < 5: LEGACY_COMMAND_NAMES[i]; i < 10: `highlight_custom_${i - 4}`; else ''
CommandNameAt(i) ==
    IF i < 5 THEN LEGACY_COMMAND_NAMES[i + 1]
    ELSE IF i < 10 THEN CustomCommandName(i - 4)
    ELSE <<>>

\* commandShortcuts[commandName] || ''
ShortcutDisplay(commandShortcuts, commandName) ==
    IF commandName \in DOMAIN commandShortcuts
    THEN commandShortcuts[commandName] ELSE <<>>

\* --------------------------------------------------------- context menus
ParentEntry ==
    [id |-> ParentMenuId, parentId |-> <<>>,
     title |-> [name |-> "highlightText", number |-> 0, shortcut |-> <<>>]]

\* the entry of the colour at 0-based position i (title: name, number, shortcut)
ChildEntry(color, i, commandShortcuts) ==
    [id |-> MenuId(IdOf(color)), parentId |-> ParentMenuId,
     title |-> [name |-> color.nameKey, number |-> ColorNumberOf(color),
                shortcut |->
                    ShortcutDisplay(commandShortcuts, CommandNameAt(i))]]

MenuIds(tree) == {tree[k].id : k \in 1..Len(tree)}

\* contextMenus.create: rejected for an id already present ("duplicate id")
\* and for a parentId that names no entry
MenuCreate(tree, entry) ==
    IF entry.id \in MenuIds(tree) THEN tree
    ELSE IF entry.parentId # <<>> /\ entry.parentId \notin MenuIds(tree)
    THEN tree
    ELSE Append(tree, entry)

\* ---------------------------------------------------------- processes
NoResponse == [pending |-> TRUE]

Idle ==
    [action |-> "none", pc |-> "idle", color |-> <<>>, colorId |-> <<>>,
     customColors |-> <<>>, commandShortcuts |-> <<>>, entry |-> ParentEntry,
     tabs |-> <<>>, i |-> 0, colors |-> <<>>,
     writes |-> 0, menuCalls |-> 0, attempts |-> <<>>,
     command |-> <<>>, menuItemId |-> <<>>, tab |-> 0,
     url |-> <<>>, groupId |-> 0, highlights |-> <<>>,
     notifyRefresh |-> FALSE, metaData |-> <<>>, keys |-> {},
     response |-> NoResponse]

InFlight(p) == p.pc \notin {"idle", "done"}

BackgroundActions ==
    {"startup", "addColor", "deleteColor", "clearCustomColors",
     "customColorsUpdated"}

MutationActions == {"addColor", "deleteColor", "clearCustomColors"}

OptionsActions == {"optionsAddColor", "optionsDeleteColor"}

\* sendResponse(resp); return
Respond(p, resp) == [p EXCEPT !.pc = "done", !.response = resp]

\* the actions the onMessage listener has a branch for
MessageActions ==
    {"getColors", "addColor", "deleteColor", "clearCustomColors",
     "customColorsUpdated", "saveHighlights", "deleteHighlight",
     "clearAllHighlights", "getHighlights", "getAllHighlightedPages",
     "deleteAllHighlightedPages"}

\* an exception leaves the body of the function that runs in the slot: the
\* catch of the onMessage listener answers with error.message; the initial
\* load and the options page log it
Thrown(p, message) ==
    IF p.action \in MessageActions
    THEN Respond(p, [success |-> FALSE, error |-> message])
    ELSE [p EXCEPT !.pc = "done"]

\* createOrUpdateContextMenus() is entered: contextMenus.removeAll() is called
\* mutant: the rebuild starts at the parent entry and removes nothing
EnterRebuildSkipsRemoveAll(p) == [p EXCEPT !.pc = "createParent"]

EnterRebuild(p) == [p EXCEPT !.pc = "removeAll"]

\* createOrUpdateContextMenus() has returned to its caller
AfterRebuild(p) ==
    IF p.action \in {"startup", "tabActivated"} THEN [p EXCEPT !.pc = "done"]
    ELSE [p EXCEPT !.pc = "query"]

\* for (...; i < currentColors.length; ...): create the next child or return.
\* getMessage(color.nameKey) is evaluated before the try of the create:
\* i18n.getMessage(undefined) is refused by the browser with a TypeError,
\* which leaves createOrUpdateContextMenus and its caller
ChildLoop(p, i, mirror) ==
    IF i < Len(mirror)
    THEN IF "nameKey" \in DOMAIN mirror[i + 1]
         THEN [p EXCEPT !.pc = "createChild", !.i = i,
                        !.entry = ChildEntry(mirror[i + 1], i,
                                             p.commandShortcuts)]
         ELSE Thrown([p EXCEPT !.i = i], "i18n.getMessage")
    ELSE AfterRebuild(p)

\* the response that ends a handler after its broadcast
FinalResponse(p, mirror) ==
    IF p.action \in {"addColor", "deleteColor"}
    THEN [success |-> TRUE, colors |-> mirror]
    ELSE [success |-> TRUE]

\* for (const tab of tabs): send to the next tab or respond
BroadcastLoop(p, j, mirror) ==
    IF j <= Len(p.tabs)
    THEN [p EXCEPT !.pc = "send", !.i = j, !.colors = mirror]
    ELSE Respond(p, FinalResponse(p, mirror))

\* ------------------------------------------------------------- inputs
HexDigits ==
    <<"0", "1", "2", "3", "4", "5", "6", "7", "8", "9",
      "A", "B", "C", "D", "E", "F">>

\* the colour "#xy" whose two hex digits spell k
PaletteColor(k) == <<"#", HexDigits[(k \div 16) + 1], HexDigits[(k % 16) + 1]>>

\* a collection of n colours as an earlier session left it in storage
Stored(n) == [k \in 1..n |-> NewColorObj(k, k, PaletteColor(k))]

\* a collection stored by a version that did not number its colours
Legacy(n) == [k \in 1..n |-> NewColorObj(k, 0, PaletteColor(k))]

\* Date.now() when the background script starts: later than every stored id
InitClock == MAX_CUSTOM_COLORS + 1

\* the values Date.now() can return now: time does not run backwards
Now == clock..(InitClock + MaxTicks)

\* message.color of an addColor request: "", "#fa", "#FA", "#0A"
ColorInputs ==
    {<<>>, <<"#", "f", "a">>, <<"#", "F", "A">>, <<"#", "0", "A">>}

\* the colour the options page passes to addColor (picker hex or a preset)
OptionsColorInputs == {<<"#", "F", "A">>, <<"#", "2", "C">>}

\* message.colorId of a deleteColor request: absent, unknown, stored, new
IdInputs == {<<>>, CustomId(0), CustomId(2), CustomId(InitClock)}

\* the colour whose delete button is clicked on the options page
OptionsIdInputs == {CustomId(2), CustomId(InitClock)}

Tabs == 1..NumTabs

\* tabs.query({}): the open tabs, in order
OpenTabs == [k \in 1..NumTabs |-> k]

\* storage.local without a page's highlights or metadata
NoPages == [k \in {} |-> <<>>]

InitialBindings ==
    [c \in Commands |->
        IF c = LEGACY_COMMAND_NAMES[1] THEN <<"Ctrl+Shift+1">>
        ELSE IF c = CustomCommandName(1) THEN <<"Ctrl+Shift+6">>
        ELSE IF c = <<"_execute_action">> THEN <<"Ctrl+Shift+H">>
        ELSE <<>>]

\* ---------------------------------------------------------------- Init
\* The script has been evaluated: the mirror is a copy of COLORS (empty), no
\* snapshot is stored, and the initial load (the IIFE at the end of the file)
\* has called loadCustomColors and awaits its storage read.
Started(collections, listening) ==
    /\ storage \in collections
    /\ currentColors = <<>>
    /\ storedShortcuts = <<>>
    /\ menus = <<>>
    /\ bindings = InitialBindings
    /\ listeners \in listening
    /\ clock = InitClock
    /\ inbox = 0
    /\ req = [s \in Slots |->
                IF s = 1 THEN [Idle EXCEPT !.action = "startup", !.pc = "get"]
                ELSE Idle]
    /\ started = 0
    /\ calls = <<1>>

\* a fresh install, or the small collection of an older version; the first
\* open tab has no listener
Init == Started({Stored(0), Legacy(2)}, {Tabs \ {1}}) /\ local = NoPages

\* as Init, or a collection one short of the maximum; any tab may lack a
\* listener
InitStored ==
    /\ Started({Stored(0), Legacy(2), Stored(MAX_CUSTOM_COLORS - 1)},
               SUBSET Tabs)
    /\ local = NoPages

\* ------------------------------------------------- order of the calls
\* the pcs at which a storage.local call has been made and has not taken
\* effect, and those at which a contextMenus call has
StorageCalls ==
    {"get", "set", "hlGet", "hlSetData", "hlGetMeta", "hlSetMeta", "hlRemove",
     "hlGetOne", "hlGetAll", "hlRemoveAll"}

MenuCalls == {"removeAll", "createParent", "createChild"}

\* the browser API the process waits for, "" when it is neither of the two
Api(p) ==
    IF p.pc \in StorageCalls THEN "storage"
    ELSE IF p.pc \in MenuCalls THEN "contextMenus"
    ELSE ""

\* the page whose script the process runs in
Page(p) == IF p.action \in OptionsActions THEN "options" ELSE "background"

\* the call of slot s is the oldest call its page has made to that API and
\* that has not taken effect
InOrder(s) ==
    \A k \in 1..Len(calls) :
        \/ \E j \in 1..k : calls[j] = s
        \/ Api(req[calls[k]]) # Api(req[s])
        \/ Page(req[calls[k]]) # Page(req[s])

\* the slot that took the step leaves the order, and joins it at the end
\* when the step made a storage or menu call
CallsStep ==
    calls' = LET moved == {s \in Slots : req'[s] # req[s]}
                 kept == SelectSeq(calls, LAMBDA t : t \notin moved)
                 made == {s \in moved : Api(req'[s]) # ""}
             IN IF made = {} THEN kept
                ELSE Append(kept, CHOOSE s \in made : TRUE)

\* ------------------------------------------------------ starting a request
Quiescent == \A s \in Slots : ~InFlight(req[s])

FreeSlot(s) ==
    /\ ~InFlight(req[s])
    /\ \A t \in 1..(s - 1) : InFlight(req[t])

\* slot s starts running p; the handlers that have answered leave their slots
Launch(s, p) ==
    /\ started < MaxRequests
    /\ FreeSlot(s)
    /\ started' = started + 1
    /\ req' = [t \in Slots |->
                 IF t = s THEN p
                 ELSE IF req[t].pc = "done" THEN Idle ELSE req[t]]

\* onMessage, action addColor, up to the storage read
StartAddColor(s) ==
    \E color \in ColorInputs :
        /\ Launch(s, IF color = <<>>
                     THEN Respond([Idle EXCEPT !.action = "addColor"],
                                  [success |-> FALSE])
                     ELSE [Idle EXCEPT !.action = "addColor", !.pc = "get",
                                       !.color = color])
        /\ UNCHANGED <<storage, currentColors, storedShortcuts, menus,
                       bindings, listeners, clock, inbox>>
        /\ UNCHANGED local
        /\ CallsStep

\* onMessage, action deleteColor, up to the storage read
StartDeleteColor(s) ==
    \E colorId \in IdInputs :
        /\ Launch(s, IF colorId = <<>>
                     THEN Respond([Idle EXCEPT !.action = "deleteColor"],
                                  [success |-> FALSE,
                                   error |-> "Color ID is required"])
                     ELSE [Idle EXCEPT !.action = "deleteColor", !.pc = "get",
                                       !.colorId = colorId])
        /\ UNCHANGED <<storage, currentColors, storedShortcuts, menus,
                       bindings, listeners, clock, inbox>>
        /\ UNCHANGED local
        /\ CallsStep

\* onMessage, action clearCustomColors, up to the storage read
StartClearCustomColors(s) ==
    /\ Launch(s, [Idle EXCEPT !.action = "clearCustomColors", !.pc = "get"])
    /\ UNCHANGED <<storage, currentColors, storedShortcuts, menus, bindings,
                   listeners, clock, inbox>>
    /\ UNCHANGED local
    /\ CallsStep

\* onMessage, action customColorsUpdated: a message the options page sent
StartCustomColorsUpdated(s) ==
    /\ inbox > 0
    /\ inbox' = inbox - 1
    /\ Launch(s, [Idle EXCEPT !.action = "customColorsUpdated", !.pc = "get"])
    /\ UNCHANGED <<storage, currentColors, storedShortcuts, menus, bindings,
                   listeners, clock>>
    /\ UNCHANGED local
    /\ CallsStep

\* options page addColor(colorValue), up to the storage read
StartOptionsAddColor(s) ==
    \E color \in OptionsColorInputs :
        /\ Launch(s, [Idle EXCEPT !.action = "optionsAddColor", !.pc = "get",
                                  !.color = color])
        /\ UNCHANGED <<storage, currentColors, storedShortcuts, menus,
                       bindings, listeners, clock, inbox>>
        /\ UNCHANGED local
        /\ CallsStep

\* options page deleteColor(colorId), up to the storage read
StartOptionsDeleteColor(s) ==
    \E colorId \in OptionsIdInputs :
        /\ Launch(s, [Idle EXCEPT !.action = "optionsDeleteColor",
                                  !.pc = "get", !.colorId = colorId])
        /\ UNCHANGED <<storage, currentColors, storedShortcuts, menus,
                       bindings, listeners, clock, inbox>>
        /\ UNCHANGED local
        /\ CallsStep

\* --------------------------------------------------------------- storage
Set(s, p) == req' = [req EXCEPT ![s] = p]

\* storage.local.get(['customColors']) takes effect: result.customColors || []
StorageGet(s) ==
    /\ req[s].pc = "get"
    /\ InOrder(s)
    /\ Set(s, [req[s] EXCEPT !.customColors = storage, !.pc = "gotten"])
    /\ UNCHANGED <<storage, currentColors, storedShortcuts, menus, bindings,
                   listeners, clock, inbox, started>>
    /\ UNCHANGED local
    /\ CallsStep

\* storage.local.set({ customColors }) takes effect; clearCustomColors
\* writes the literal { customColors: [] }
StorageSet(s) ==
    /\ req[s].pc = "set"
    /\ InOrder(s)
    /\ storage' = IF req[s].action = "clearCustomColors" THEN <<>>
                  ELSE req[s].customColors
    /\ Set(s, [req[s] EXCEPT !.writes = @ + 1, !.pc = "written"])
    /\ UNCHANGED <<currentColors, storedShortcuts, menus, bindings,
                   listeners, clock, inbox, started>>
    /\ UNCHANGED local
    /\ CallsStep

\* ------------------------------------------------------ clearCustomColors
ClearAfterGet(s) ==
    LET p == req[s] IN
    /\ p.action = "clearCustomColors" /\ p.pc = "gotten"
    /\ Set(s, IF Len(p.customColors) = 0
              THEN Respond(p, [success |-> TRUE, noCustomColors |-> TRUE])
              ELSE [p EXCEPT !.pc = "set"])
    /\ UNCHANGED <<storage, currentColors, storedShortcuts, menus, bindings,
                   listeners, clock, inbox, started>>
    /\ UNCHANGED local
    /\ CallsStep

\* mutant: the mirror is not reset after the write
ClearAfterSetKeepsMirror(s) ==
    LET p == req[s] IN
    /\ p.action = "clearCustomColors" /\ p.pc = "written"
    /\ Set(s, EnterRebuild(p))
    /\ UNCHANGED <<storage, currentColors, storedShortcuts, menus, bindings,
                   listeners, clock, inbox, started>>
    /\ UNCHANGED local
    /\ CallsStep

ClearAfterSet(s) ==
    LET p == req[s] IN
    /\ p.action = "clearCustomColors" /\ p.pc = "written"
    /\ currentColors' = <<>>
    /\ Set(s, EnterRebuild(p))
    /\ UNCHANGED <<storage, storedShortcuts, menus, bindings, listeners,
                   clock, inbox, started>>
    /\ UNCHANGED local
    /\ CallsStep

\* ------------------------------------------------------------ deleteColor
DeleteAfterGet(s) ==
    LET p == req[s]
        colorIndex == FindIndex(p.customColors, p.colorId)
    IN
    /\ p.action = "deleteColor" /\ p.pc = "gotten"
    /\ Set(s, IF colorIndex = 0
              THEN Respond(p, [success |-> FALSE, error |-> "Color not found"])
              ELSE [p EXCEPT
                      !.customColors =
                          Renumber(Splice(p.customColors, colorIndex)),
                      !.pc = "set"])
    /\ UNCHANGED <<storage, currentColors, storedShortcuts, menus, bindings,
                   listeners, clock, inbox, started>>
    /\ UNCHANGED local
    /\ CallsStep

DeleteAfterSet(s) ==
    LET p == req[s] IN
    /\ p.action = "deleteColor" /\ p.pc = "written"
    /\ currentColors' = p.customColors
    /\ Set(s, EnterRebuild(p))
    /\ UNCHANGED <<storage, storedShortcuts, menus, bindings, listeners,
                   clock, inbox, started>>
    /\ UNCHANGED local
    /\ CallsStep

\* --------------------------------------------------------------- addColor
AddAfterGet(s) ==
    LET p == req[s] IN
    /\ p.action = "addColor" /\ p.pc = "gotten"
    /\ IF LimitReached(p.customColors)
       THEN /\ Set(s, Respond(p, [success |-> FALSE,
                                  error |-> "Maximum color limit reached",
                                  colors |-> currentColors]))
            /\ UNCHANGED <<currentColors, clock>>
       ELSE IF ExistsThrows(p.customColors, p.color)
       THEN /\ Set(s, Thrown(p, "c.color is undefined"))
            /\ UNCHANGED <<currentColors, clock>>
       ELSE IF Exists(p.customColors, p.color)
       THEN /\ Set(s, Respond(p, [success |-> TRUE, colors |-> currentColors]))
            /\ UNCHANGED <<currentColors, clock>>
       ELSE \E now \in Now :
              LET newColorObj ==
                      NewColorObj(now, Len(p.customColors) + 1, p.color)
              IN
              /\ clock' = now
              /\ currentColors' = Append(currentColors, newColorObj)
              /\ Set(s, [p EXCEPT !.customColors = Append(@, newColorObj),
                                  !.pc = "set"])
    /\ UNCHANGED <<storage, storedShortcuts, menus, bindings, listeners,
                   inbox, started>>
    /\ UNCHANGED local
    /\ CallsStep

AddAfterSet(s) ==
    LET p == req[s] IN
    /\ p.action = "addColor" /\ p.pc = "written"
    /\ Set(s, EnterRebuild(p))
    /\ UNCHANGED <<storage, currentColors, storedShortcuts, menus, bindings,
                   listeners, clock, inbox, started>>
    /\ UNCHANGED local
    /\ CallsStep

\* ------------------------------------------------------- loadCustomColors
\* called by the initial load and by the customColorsUpdated handler
LoadAfterGet(s) ==
    LET p == req[s]
        customColors == AssignMissingNumbers(p.customColors)
        needsUpdate == \E k \in 1..Len(p.customColors) :
                           ColorNumberOf(p.customColors[k]) = 0
    IN
    /\ p.action \in {"startup", "customColorsUpdated"} /\ p.pc = "gotten"
    /\ IF needsUpdate
       THEN /\ Set(s, [p EXCEPT !.customColors = customColors, !.pc = "set"])
            /\ UNCHANGED currentColors
       ELSE /\ currentColors' = customColors
            /\ Set(s, EnterRebuild([p EXCEPT !.customColors = customColors]))
    /\ UNCHANGED <<storage, storedShortcuts, menus, bindings, listeners,
                   clock, inbox, started>>
    /\ UNCHANGED local
    /\ CallsStep

LoadAfterSet(s) ==
    LET p == req[s] IN
    /\ p.action \in {"startup", "customColorsUpdated"} /\ p.pc = "written"
    /\ currentColors' = p.customColors
    /\ Set(s, EnterRebuild(p))
    /\ UNCHANGED <<storage, storedShortcuts, menus, bindings, listeners,
                   clock, inbox, started>>
    /\ UNCHANGED local
    /\ CallsStep

\* ------------------------------------------------------------ options page
OptionsAddAfterGet(s) ==
    LET p == req[s] IN
    /\ p.action = "optionsAddColor" /\ p.pc = "gotten"
    /\ IF LimitReached(p.customColors)
       THEN /\ Set(s, [p EXCEPT !.pc = "done"])
            /\ UNCHANGED clock
       ELSE IF ExistsThrows(p.customColors, p.color)
            \/ Exists(p.customColors, p.color)
       THEN /\ Set(s, [p EXCEPT !.pc = "done"])
            /\ UNCHANGED clock
       ELSE \E now \in Now :
              LET newColor ==
                      NewColorObj(now, Len(p.customColors) + 1,
                                  ToUpperCase(p.color))
              IN
              /\ clock' = now
              /\ Set(s, [p EXCEPT !.customColors = Append(@, newColor),
                                  !.pc = "set"])
    /\ UNCHANGED <<storage, currentColors, storedShortcuts, menus, bindings,
                   listeners, inbox, started>>
    /\ UNCHANGED local
    /\ CallsStep

OptionsDeleteAfterGet(s) ==
    LET p == req[s] IN
    /\ p.action = "optionsDeleteColor" /\ p.pc = "gotten"
    /\ Set(s, [p EXCEPT
                 !.customColors =
                     Renumber(FilterOutId(p.customColors, p.colorId)),
                 !.pc = "set"])
    /\ UNCHANGED <<storage, currentColors, storedShortcuts, menus, bindings,
                   listeners, clock, inbox, started>>
    /\ UNCHANGED local
    /\ CallsStep

\* runtime.sendMessage({ action: 'customColorsUpdated' }) after the write
OptionsAfterSet(s) ==
    LET p == req[s] IN
    /\ p.action \in OptionsActions /\ p.pc = "written"
    /\ inbox' = inbox + 1
    /\ Set(s, [p EXCEPT !.pc = "done"])
    /\ UNCHANGED <<storage, currentColors, storedShortcuts, menus, bindings,
                   listeners, clock, started>>
    /\ UNCHANGED local
    /\ CallsStep

\* ---------------------------------------------- createOrUpdateContextMenus
\* mutant: the entries of the earlier rebuild are left in place
MenusRemoveAllKeepsEntries(s) ==
    LET p == req[s] IN
    /\ p.pc = "removeAll"
    /\ InOrder(s)
    /\ UNCHANGED menus
    /\ Set(s, [p EXCEPT !.menuCalls = @ + 1, !.pc = "createParent",
                        !.entry = ParentEntry])
    /\ UNCHANGED <<storage, currentColors, storedShortcuts, bindings,
                   listeners, clock, inbox, started>>
    /\ UNCHANGED local
    /\ CallsStep

\* await contextMenus.removeAll(), then contextMenus.create(parent) is called
MenusRemoveAll(s) ==
    LET p == req[s] IN
    /\ p.pc = "removeAll"
    /\ InOrder(s)
    /\ menus' = <<>>
    /\ Set(s, [p EXCEPT !.menuCalls = @ + 1, !.pc = "createParent",
                        !.entry = ParentEntry])
    /\ UNCHANGED <<storage, currentColors, storedShortcuts, bindings,
                   listeners, clock, inbox, started>>
    /\ UNCHANGED local
    /\ CallsStep

\* await contextMenus.create(parent), then commands.getAll() is called
MenusCreateParent(s) ==
    LET p == req[s] IN
    /\ p.pc = "createParent"
    /\ InOrder(s)
    /\ menus' = MenuCreate(menus, p.entry)
    /\ Set(s, [p EXCEPT !.menuCalls = @ + 1, !.pc = "getAll"])
    /\ UNCHANGED <<storage, currentColors, storedShortcuts, bindings,
                   listeners, clock, inbox, started>>
    /\ UNCHANGED local
    /\ CallsStep

\* await getCurrentShortcuts(); storedShortcuts = { ...commandShortcuts };
\* the loop over currentColors starts
MenusGetShortcuts(s) ==
    LET p == req[s]
        commandShortcuts == getCurrentShortcuts(bindings)
    IN
    /\ p.pc = "getAll"
    /\ storedShortcuts' = commandShortcuts
    /\ Set(s, ChildLoop([p EXCEPT !.commandShortcuts = commandShortcuts],
                        0, currentColors))
    /\ UNCHANGED <<storage, currentColors, menus, bindings, listeners, clock,
                   inbox, started>>
    /\ UNCHANGED local
    /\ CallsStep

\* await contextMenus.create(child i); i++
MenusCreateChild(s) ==
    LET p == req[s] IN
    /\ p.pc = "createChild"
    /\ InOrder(s)
    /\ menus' = MenuCreate(menus, p.entry)
    /\ Set(s, ChildLoop([p EXCEPT !.menuCalls = @ + 1], p.i + 1, currentColors))
    /\ UNCHANGED <<storage, currentColors, storedShortcuts, bindings,
                   listeners, clock, inbox, started>>
    /\ UNCHANGED local
    /\ CallsStep

\* -------------------------------------------------------------- broadcast
\* const tabs = await tabs.query({})
TabsQuery(s) ==
    LET p == req[s] IN
    /\ p.pc = "query"
    /\ Set(s, BroadcastLoop([p EXCEPT !.tabs = OpenTabs], 1, currentColors))
    /\ UNCHANGED <<storage, currentColors, storedShortcuts, menus, bindings,
                   listeners, clock, inbox, started>>
    /\ UNCHANGED local
    /\ CallsStep

\* await tabs.sendMessage(tab.id, { action: 'colorsUpdated', colors }):
\* delivered, or rejected (no listener in the tab) and the error caught
TabsSendMessage(s) ==
    LET p == req[s]
        tab == p.tabs[p.i]
        attempt == [tab |-> tab, colors |-> p.colors,
                    ok |-> tab \in listeners]
    IN
    /\ p.pc = "send"
    /\ Set(s, IF attempt.ok
              THEN BroadcastLoop([p EXCEPT !.attempts = Append(@, attempt)],
                                 p.i + 1, currentColors)
              ELSE \* catch (error) { debugLog(...) }
                   BroadcastLoop([p EXCEPT !.attempts = Append(@, attempt)],
                                 p.i + 1, currentColors))
    /\ UNCHANGED <<storage, currentColors, storedShortcuts, menus, bindings,
                   listeners, clock, inbox, started>>
    /\ UNCHANGED local
    /\ CallsStep

\* ------------------------------------------------------ shortcut commands
\* the commands of the manifest that onCommand can deliver
CommandInputs == Commands

\* tabs.query({ active: true, currentWindow: true })[0]: a tab, or 0 for none
ActiveTabInputs == {0} \cup Tabs

\* mutant: highlight_custom_k is taken for the position after its own
CommandPositionOffByOne(command) ==
    IF \E k \in 1..Len(LEGACY_COMMAND_NAMES) : command = LEGACY_COMMAND_NAMES[k]
    THEN CHOOSE k \in 1..Len(LEGACY_COMMAND_NAMES) :
             command = LEGACY_COMMAND_NAMES[k]
    ELSE IF \E slotNum \in 1..5 : command = CustomCommandName(slotNum)
    THEN 5 + command[3] + 1
    ELSE 0

\* the switch of onCommand: the position (index + 1) in currentColors that
\* the command stands for, 0 when no case matches;
\* colorIndex = 5 + slotNum - 1
CommandPosition(command) ==
    IF \E k \in 1..Len(LEGACY_COMMAND_NAMES) : command = LEGACY_COMMAND_NAMES[k]
    THEN CHOOSE k \in 1..Len(LEGACY_COMMAND_NAMES) :
             command = LEGACY_COMMAND_NAMES[k]
    ELSE IF \E slotNum \in 1..5 : command = CustomCommandName(slotNum)
    THEN (5 + command[3] - 1) + 1
    ELSE 0

\* targetColor: currentColors[index]?.color when the mirror is long enough,
\* else null (<<>>)
TargetColor(command, colors) ==
    LET position == CommandPosition(command) IN
    IF position = 0 THEN <<>>
    ELSE IF Len(colors) >= position /\ "color" \in DOMAIN colors[position]
    THEN colors[position].color
    ELSE <<>>

\* commands.onCommand, up to tabs.query
StartCommand(s) ==
    \E command \in CommandInputs :
        /\ Launch(s, [Idle EXCEPT !.action = "command", !.pc = "queryActive",
                                  !.command = command])
        /\ UNCHANGED <<storage, currentColors, storedShortcuts, menus,
                       bindings, listeners, clock, inbox>>
        /\ UNCHANGED local
        /\ CallsStep

\* const activeTab = tabs[0]; the switch; if (targetColor) sendMessage
CommandAfterQuery(s) ==
    LET p == req[s]
        targetColor == TargetColor(p.command, currentColors)
    IN
    /\ p.action = "command" /\ p.pc = "queryActive"
    /\ \E activeTab \in ActiveTabInputs :
          Set(s, IF activeTab = 0
                 THEN [p EXCEPT !.pc = "done"]
                 ELSE IF targetColor # <<>>
                 THEN [p EXCEPT !.tabs = <<activeTab>>, !.tab = activeTab,
                                !.colors = targetColor,
                                !.pc = "sendHighlight"]
                 ELSE [p EXCEPT !.tabs = <<activeTab>>, !.pc = "done"])
    /\ UNCHANGED <<storage, currentColors, storedShortcuts, menus, bindings,
                   listeners, clock, inbox, started>>
    /\ UNCHANGED local
    /\ CallsStep

\* await tabs.sendMessage(tab.id, { action: 'highlight', color }): delivered,
\* or rejected and the error caught
HighlightSend(s) ==
    LET p == req[s]
        attempt == [tab |-> p.tab, action |-> "highlight", color |-> p.colors,
                    ok |-> p.tab \in listeners]
    IN
    /\ p.pc = "sendHighlight"
    /\ Set(s, [p EXCEPT !.attempts = Append(@, attempt), !.pc = "done"])
    /\ UNCHANGED <<storage, currentColors, storedShortcuts, menus, bindings,
                   listeners, clock, inbox, started>>
    /\ UNCHANGED local
    /\ CallsStep

\* ------------------------------------------------------------ menu clicks
\* info.menuItemId: the parent entry or the entry of a stored colour
MenuItemInputs == {ParentMenuId, MenuId(CustomId(1)), MenuId(CustomId(2))}

\* menuId.startsWith('highlight-') && menuId !== 'highlight-text'
IsColorEntry(menuId) == menuId[1] = "highlight-" /\ menuId # ParentMenuId

\* mutant: the prefix is not removed
ClickedColorIdKeepsPrefix(menuId) == menuId

\* menuId.replace('highlight-', '')
ClickedColorId(menuId) == Tail(menuId)

\* currentColors.find(c => c.id === colorId): the position, 0 for undefined
FindColor(colors, colorId) ==
    IF \E k \in 1..Len(colors) : IdIs(colors[k], colorId)
    THEN CHOOSE k \in 1..Len(colors) :
             /\ IdIs(colors[k], colorId)
             /\ \A j \in 1..(k - 1) : ~IdIs(colors[j], colorId)
    ELSE 0

\* contextMenus.onClicked for an entry the menu shows, up to
\* tabs.sendMessage: no await comes before it
StartClick(s) ==
    \E menuId \in MenuItemInputs \cap MenuIds(menus), tab \in Tabs :
        LET p == [Idle EXCEPT !.action = "click", !.menuItemId = menuId,
                              !.tab = tab]
            found == FindColor(currentColors, ClickedColorId(menuId))
        IN
        /\ Launch(s, IF IsColorEntry(menuId) /\ found # 0
                     THEN [p EXCEPT !.colors = ColorOf(currentColors[found]),
                                    !.pc = "sendHighlight"]
                     ELSE [p EXCEPT !.pc = "done"])
        /\ UNCHANGED <<storage, currentColors, storedShortcuts, menus,
                       bindings, listeners, clock, inbox>>
        /\ UNCHANGED local
        /\ CallsStep

\* -------------------------------------------------------- tab activation
\* the keys a command can be bound to in the browser's settings
KeyInputs == {<<>>, <<"Ctrl+Shift+1">>, <<"Alt+9">>}

\* the commands whose binding the user changes
RebindInputs == {LEGACY_COMMAND_NAMES[1], LEGACY_COMMAND_NAMES[2]}

\* the user binds a command to another key, or unbinds it
Rebind ==
    /\ started < MaxRequests
    /\ started' = started + 1
    /\ \E command \in RebindInputs, key \in KeyInputs :
          /\ bindings[command] # key
          /\ bindings' = [bindings EXCEPT ![command] = key]
    /\ UNCHANGED <<storage, currentColors, storedShortcuts, menus, listeners,
                   clock, inbox, req, local>>
    /\ CallsStep

\* mutant: only the first loop, a binding that was removed goes unnoticed
HasChangedFirstLoopOnly(stored, current) ==
    \E commandName \in DOMAIN current :
        \/ commandName \notin DOMAIN stored
        \/ stored[commandName] # current[commandName]

\* hasChanged: for (commandName in currentShortcuts) stored !== current;
\* for (commandName in storedShortcuts) !currentShortcuts[commandName]
HasChanged(stored, current) ==
    \/ \E commandName \in DOMAIN current :
          \/ commandName \notin DOMAIN stored
          \/ stored[commandName] # current[commandName]
    \/ \E commandName \in DOMAIN stored : commandName \notin DOMAIN current

\* tabs.onActivated, up to getCurrentShortcuts
StartTabActivated(s) ==
    /\ Launch(s, [Idle EXCEPT !.action = "tabActivated",
                              !.pc = "getShortcuts"])
    /\ UNCHANGED <<storage, currentColors, storedShortcuts, menus, bindings,
                   listeners, clock, inbox>>
    /\ UNCHANGED local
    /\ CallsStep

\* the two loops; if (hasChanged) await createOrUpdateContextMenus()
ActivatedAfterGetShortcuts(s) ==
    LET p == req[s]
        currentShortcuts == getCurrentShortcuts(bindings)
    IN
    /\ p.action = "tabActivated" /\ p.pc = "getShortcuts"
    /\ Set(s, IF HasChanged(storedShortcuts, currentShortcuts)
              THEN EnterRebuild([p EXCEPT
                                   !.commandShortcuts = currentShortcuts])
              ELSE [p EXCEPT !.commandShortcuts = currentShortcuts,
                             !.pc = "done"])
    /\ UNCHANGED <<storage, currentColors, storedShortcuts, menus, bindings,
                   listeners, clock, inbox, started>>
    /\ UNCHANGED local
    /\ CallsStep

\* ------------------------------------------------- other message actions
\* onMessage, action getColors: sendResponse({ colors: currentColors })
StartGetColors(s) ==
    /\ Launch(s, Respond([Idle EXCEPT !.action = "getColors"],
                         [colors |-> currentColors]))
    /\ UNCHANGED <<storage, currentColors, storedShortcuts, menus, bindings,
                   listeners, clock, inbox>>
    /\ UNCHANGED local
    /\ CallsStep

\* onMessage with an action no branch tests for: the async function returns
\* without calling sendResponse
StartOtherAction(s) ==
    /\ Launch(s, [Idle EXCEPT !.action = "other", !.pc = "done"])
    /\ UNCHANGED <<storage, currentColors, storedShortcuts, menus, bindings,
                   listeners, clock, inbox>>
    /\ UNCHANGED local
    /\ CallsStep

\* ------------------------------------------------ rejected platform calls
\* inside loadCustomColors the exception is caught and the caller goes on
ThrownInLoad(p, message) ==
    IF p.action \in {"startup", "customColorsUpdated"}
    THEN EnterRebuild(p)
    ELSE Thrown(p, message)

\* storage.local.get(['customColors']) is rejected
StorageGetFails(s) ==
    /\ req[s].pc = "get"
    /\ InOrder(s)
    /\ Set(s, ThrownInLoad(req[s], "storage.local.get"))
    /\ UNCHANGED <<storage, currentColors, storedShortcuts, menus, bindings,
                   listeners, clock, inbox, started>>
    /\ UNCHANGED local
    /\ CallsStep

\* storage.local.set({ customColors }) is rejected
StorageSetFails(s) ==
    /\ req[s].pc = "set"
    /\ InOrder(s)
    /\ Set(s, ThrownInLoad(req[s], "storage.local.set"))
    /\ UNCHANGED <<storage, currentColors, storedShortcuts, menus, bindings,
                   listeners, clock, inbox, started>>
    /\ UNCHANGED local
    /\ CallsStep

\* mutant: the rejection of removeAll is not caught
MenusRemoveAllFailsUncaught(s) ==
    LET p == req[s] IN
    /\ p.pc = "removeAll"
    /\ InOrder(s)
    /\ Set(s, Thrown([p EXCEPT !.menuCalls = @ + 1],
                     "contextMenus.removeAll"))
    /\ UNCHANGED <<storage, currentColors, storedShortcuts, menus, bindings,
                   listeners, clock, inbox, started>>
    /\ UNCHANGED local
    /\ CallsStep

\* mutant: the aborted rebuild has already taken the snapshot
MenusRemoveAllFailsTakesSnapshot(s) ==
    LET p == req[s] IN
    /\ p.pc = "removeAll"
    /\ InOrder(s)
    /\ storedShortcuts' = getCurrentShortcuts(bindings)
    /\ Set(s, AfterRebuild([p EXCEPT !.menuCalls = @ + 1]))
    /\ UNCHANGED <<storage, currentColors, menus, bindings,
                   listeners, clock, inbox, started>>
    /\ UNCHANGED local
    /\ CallsStep

\* contextMenus.removeAll() is rejected: catch, debugLog, return
MenusRemoveAllFails(s) ==
    LET p == req[s] IN
    /\ p.pc = "removeAll"
    /\ InOrder(s)
    /\ Set(s, AfterRebuild([p EXCEPT !.menuCalls = @ + 1]))
    /\ UNCHANGED <<storage, currentColors, storedShortcuts, menus, bindings,
                   listeners, clock, inbox, started>>
    /\ UNCHANGED local
    /\ CallsStep

\* contextMenus.create(parent) is rejected with an Error: caught
MenusCreateParentFails(s) ==
    LET p == req[s] IN
    /\ p.pc = "createParent"
    /\ InOrder(s)
    /\ Set(s, [p EXCEPT !.menuCalls = @ + 1, !.pc = "getAll"])
    /\ UNCHANGED <<storage, currentColors, storedShortcuts, menus, bindings,
                   listeners, clock, inbox, started>>
    /\ UNCHANGED local
    /\ CallsStep

\* commands.getAll() is rejected in getCurrentShortcuts: nothing in
\* createOrUpdateContextMenus catches it
MenusGetShortcutsFails(s) ==
    /\ req[s].pc = "getAll"
    /\ Set(s, Thrown(req[s], "commands.getAll"))
    /\ UNCHANGED <<storage, currentColors, storedShortcuts, menus, bindings,
                   listeners, clock, inbox, started>>
    /\ UNCHANGED local
    /\ CallsStep

\* contextMenus.create(child i) is rejected with an Error: caught; i++
MenusCreateChildFails(s) ==
    LET p == req[s] IN
    /\ p.pc = "createChild"
    /\ InOrder(s)
    /\ Set(s, ChildLoop([p EXCEPT !.menuCalls = @ + 1], p.i + 1, currentColors))
    /\ UNCHANGED <<storage, currentColors, storedShortcuts, menus, bindings,
                   listeners, clock, inbox, started>>
    /\ UNCHANGED local
    /\ CallsStep

\* tabs.query({}) is rejected before the broadcast loop
TabsQueryFails(s) ==
    /\ req[s].pc = "query"
    /\ Set(s, Thrown(req[s], "tabs.query"))
    /\ UNCHANGED <<storage, currentColors, storedShortcuts, menus, bindings,
                   listeners, clock, inbox, started>>
    /\ UNCHANGED local
    /\ CallsStep

\* ------------------------------------------------------ page highlights
\* message.url; the key of its metadata is `${url}_meta`
\* the key of the colour collection in storage.local
CustomColorsKey == <<"customColors">>

\* message.url: the url of a page; the handlers use it as a storage key
\* unchecked, so it may also be the key of the colour collection
UrlInputs == {<<"https://", "a">>, CustomColorsKey}

MetaKey(url) == url \o <<"_meta">>

\* message.highlights: no group, one group, two groups
HighlightInputs ==
    {<<>>, <<[groupId |-> 1]>>, <<[groupId |-> 1], [groupId |-> 2]>>}

\* message.groupId
GroupIdInputs == {1, 2}

\* storage.local.set({ [key]: value })
Put(items, key, value) ==
    [k \in DOMAIN items \cup {key} |-> IF k = key THEN value ELSE items[k]]

\* storage.local.remove(keys)
Remove(items, keys) == [k \in DOMAIN items \ keys |-> items[k]]

\* highlights.filter(g => g.groupId !== groupId)
FilterOutGroup(highlights, groupId) ==
    SelectSeq(highlights,
              LAMBDA g : ~("groupId" \in DOMAIN g /\ g.groupId = groupId))

\* result[key] || [] after storage.local.get([key])
Get(key) ==
    IF key = CustomColorsKey THEN storage
    ELSE IF key \in DOMAIN local THEN local[key]
    ELSE <<>>

\* storage.local.set({ [key]: value }) takes effect
LocalSet(key, value) ==
    IF key = CustomColorsKey
    THEN storage' = value /\ local' = local
    ELSE storage' = storage /\ local' = Put(local, key, value)

\* storage.local.remove(keys) takes effect
LocalRemoveKeys(keys) ==
    /\ local' = Remove(local, keys)
    /\ storage' = IF CustomColorsKey \in keys THEN <<>> ELSE storage

\* cleanupEmptyHighlightData(url) is called: storage.local.remove is awaited,
\* unless (!url)
EnterCleanup(p) ==
    IF p.url = <<>> THEN [p EXCEPT !.pc = "hlCleaned"]
    ELSE [p EXCEPT !.pc = "hlRemove"]

\* if (message.notifyRefresh) await notifyTabHighlightsRefresh(...); then
\* sendResponse
NotifyOrRespond(p) ==
    IF p.action # "saveHighlights" /\ p.notifyRefresh
    THEN [p EXCEPT !.pc = "hlNotifyQuery"]
    ELSE [p EXCEPT !.pc = "hlRespond"]

\* onMessage, action saveHighlights, up to tabs.query
StartSaveHighlights(s) ==
    \E url \in UrlInputs, highlights \in HighlightInputs :
        /\ Launch(s, [Idle EXCEPT !.action = "saveHighlights",
                                  !.pc = "hlQuery", !.url = url,
                                  !.highlights = highlights])
        /\ UNCHANGED <<storage, currentColors, storedShortcuts, menus,
                       bindings, listeners, clock, inbox, local>>
        /\ CallsStep

\* onMessage, action deleteHighlight, up to storage.local.get([url])
StartDeleteHighlight(s) ==
    \E url \in UrlInputs, groupId \in GroupIdInputs,
       notifyRefresh \in BOOLEAN :
        /\ Launch(s, [Idle EXCEPT !.action = "deleteHighlight",
                                  !.pc = "hlGet", !.url = url,
                                  !.groupId = groupId,
                                  !.notifyRefresh = notifyRefresh])
        /\ UNCHANGED <<storage, currentColors, storedShortcuts, menus,
                       bindings, listeners, clock, inbox, local>>
        /\ CallsStep

\* onMessage, action clearAllHighlights, up to storage.local.remove
StartClearAllHighlights(s) ==
    \E url \in UrlInputs, notifyRefresh \in BOOLEAN :
        /\ Launch(s, EnterCleanup([Idle EXCEPT
                                     !.action = "clearAllHighlights",
                                     !.url = url,
                                     !.notifyRefresh = notifyRefresh]))
        /\ UNCHANGED <<storage, currentColors, storedShortcuts, menus,
                       bindings, listeners, clock, inbox, local>>
        /\ CallsStep

\* saveHighlights: const currentTab = tabs[0]; then set or cleanup
SaveAfterQuery(s) ==
    LET p == req[s] IN
    /\ p.action = "saveHighlights" /\ p.pc = "hlQuery"
    /\ \E currentTab \in ActiveTabInputs :
          Set(s, IF Len(p.highlights) > 0
                 THEN [p EXCEPT !.tab = currentTab, !.pc = "hlSetData"]
                 ELSE EnterCleanup([p EXCEPT !.tab = currentTab]))
    /\ UNCHANGED <<storage, currentColors, storedShortcuts, menus, bindings,
                   listeners, clock, inbox, started, local>>
    /\ CallsStep

\* storage.local.set({ [url]: highlights }) takes effect; saveHighlights
\* goes on to read the metadata, deleteHighlight to notify or respond
LocalSetData(s) ==
    LET p == req[s] IN
    /\ p.pc = "hlSetData"
    /\ InOrder(s)
    /\ LocalSet(p.url, p.highlights)
    /\ Set(s, IF p.action = "saveHighlights"
              THEN [p EXCEPT !.writes = @ + 1, !.pc = "hlGetMeta"]
              ELSE NotifyOrRespond([p EXCEPT !.writes = @ + 1]))
    /\ UNCHANGED <<currentColors, storedShortcuts, menus, bindings,
                   listeners, clock, inbox, started>>
    /\ CallsStep

\* storage.local.get([`${url}_meta`]) takes effect; metaData.title =
\* currentTab.title throws when there is no active tab; metaData.lastUpdated
\* is the time at which the continuation runs (new Date())
LocalGetMeta(s) ==
    LET p == req[s] IN
    /\ p.pc = "hlGetMeta"
    /\ InOrder(s)
    /\ IF p.tab = 0
       THEN /\ Set(s, Thrown(p, "currentTab is undefined"))
            /\ UNCHANGED clock
       ELSE \E now \in Now :
              LET metaData == [title |-> p.tab, lastUpdated |-> now] IN
              /\ clock' = now
              /\ Set(s, [p EXCEPT !.metaData = metaData, !.pc = "hlSetMeta"])
    /\ UNCHANGED <<storage, currentColors, storedShortcuts, menus, bindings,
                   listeners, inbox, started, local>>
    /\ CallsStep

\* storage.local.set({ [`${url}_meta`]: metaData }) takes effect
LocalSetMeta(s) ==
    LET p == req[s] IN
    /\ p.pc = "hlSetMeta"
    /\ InOrder(s)
    /\ LocalSet(MetaKey(p.url), p.metaData)
    /\ Set(s, [p EXCEPT !.writes = @ + 1, !.pc = "hlRespond"])
    /\ UNCHANGED <<currentColors, storedShortcuts, menus, bindings,
                   listeners, clock, inbox, started>>
    /\ CallsStep

\* deleteHighlight: storage.local.get([url]) takes effect; the group is
\* filtered out; then set or cleanup
LocalGetData(s) ==
    LET p == req[s]
        highlights == Get(p.url)
        updatedHighlights == FilterOutGroup(highlights, p.groupId)
    IN
    /\ p.pc = "hlGet"
    /\ InOrder(s)
    /\ Set(s, IF Len(updatedHighlights) > 0
              THEN [p EXCEPT !.highlights = updatedHighlights,
                             !.pc = "hlSetData"]
              ELSE EnterCleanup([p EXCEPT !.highlights = updatedHighlights]))
    /\ UNCHANGED <<storage, currentColors, storedShortcuts, menus, bindings,
                   listeners, clock, inbox, started, local>>
    /\ CallsStep

\* storage.local.remove([url, `${url}_meta`]) takes effect
LocalRemove(s) ==
    LET p == req[s] IN
    /\ p.pc = "hlRemove"
    /\ InOrder(s)
    /\ LocalRemoveKeys({p.url, MetaKey(p.url)})
    /\ Set(s, [p EXCEPT !.writes = @ + 1, !.pc = "hlCleaned"])
    /\ UNCHANGED <<currentColors, storedShortcuts, menus, bindings,
                   listeners, clock, inbox, started>>
    /\ CallsStep

\* cleanupEmptyHighlightData has returned to the handler
AfterCleanup(s) ==
    LET p == req[s] IN
    /\ p.pc = "hlCleaned"
    /\ Set(s, NotifyOrRespond([p EXCEPT !.highlights = <<>>]))
    /\ UNCHANGED <<storage, currentColors, storedShortcuts, menus, bindings,
                   listeners, clock, inbox, started, local>>
    /\ CallsStep

\* notifyTabHighlightsRefresh: tabs.query({ url }), then tabs[0].id, which
\* throws inside the try when no tab shows the url
NotifyQuery(s) ==
    LET p == req[s] IN
    /\ p.pc = "hlNotifyQuery"
    /\ \E tab \in ActiveTabInputs :
          Set(s, IF tab = 0 THEN [p EXCEPT !.pc = "hlRespond"]
                 ELSE [p EXCEPT !.tab = tab, !.pc = "hlNotifySend"])
    /\ UNCHANGED <<storage, currentColors, storedShortcuts, menus, bindings,
                   listeners, clock, inbox, started, local>>
    /\ CallsStep

\* tabs.sendMessage(tabs[0].id, { action: 'refreshHighlights', highlights })
NotifySend(s) ==
    LET p == req[s]
        attempt == [tab |-> p.tab, action |-> "refreshHighlights",
                    highlights |-> p.highlights, ok |-> p.tab \in listeners]
    IN
    /\ p.pc = "hlNotifySend"
    /\ Set(s, [p EXCEPT !.attempts = Append(@, attempt), !.pc = "hlRespond"])
    /\ UNCHANGED <<storage, currentColors, storedShortcuts, menus, bindings,
                   listeners, clock, inbox, started, local>>
    /\ CallsStep

\* sendResponse({ success: true }), with highlights for deleteHighlight
HighlightsRespond(s) ==
    LET p == req[s] IN
    /\ p.pc = "hlRespond"
    /\ Set(s, Respond(p, IF p.action = "deleteHighlight"
                         THEN [success |-> TRUE, highlights |-> p.highlights]
                         ELSE [success |-> TRUE]))
    /\ UNCHANGED <<storage, currentColors, storedShortcuts, menus, bindings,
                   listeners, clock, inbox, started, local>>
    /\ CallsStep

\* ------------------------------------------------------- specifications
Start(s) ==
    \/ StartAddColor(s)
    \/ StartDeleteColor(s)
    \/ StartClearCustomColors(s)
    \/ StartCustomColorsUpdated(s)
    \/ StartOptionsAddColor(s)
    \/ StartOptionsDeleteColor(s)

Step(s) ==
    \/ StorageGet(s)
    \/ StorageSet(s)
    \/ ClearAfterGet(s)
    \/ ClearAfterSet(s)
    \/ DeleteAfterGet(s)
    \/ DeleteAfterSet(s)
    \/ AddAfterGet(s)
    \/ AddAfterSet(s)
    \/ LoadAfterGet(s)
    \/ LoadAfterSet(s)
    \/ OptionsAddAfterGet(s)
    \/ OptionsDeleteAfterGet(s)
    \/ OptionsAfterSet(s)
    \/ MenusRemoveAll(s)
    \/ MenusCreateParent(s)
    \/ MenusGetShortcuts(s)
    \/ MenusCreateChild(s)
    \/ TabsQuery(s)
    \/ TabsSendMessage(s)

\* requests arrive whenever they like and interleave at their awaits
Next ==
    \/ \E s \in Slots : Start(s)
    \/ \E s \in Slots : Step(s)

Spec == Init /\ [][Next]_vars

\* each request is handled to completion before the next one begins
NextSeq ==
    \/ \E s \in Slots : Quiescent /\ Start(s)
    \/ \E s \in Slots : Step(s)

SpecSeq == InitStored /\ [][NextSeq]_vars

\* a handler or an options-page operation has written the collection, or has
\* decided not to write it, and has not yet returned
PastStorage(p) == InFlight(p) /\ p.pc \notin {"get", "gotten", "set"}

\* as Init, or a collection one short of the maximum
InitRace ==
    /\ Started({Stored(0), Legacy(2), Stored(MAX_CUSTOM_COLORS - 1)},
               {Tabs \ {1}})
    /\ local = NoPages

\* requests interleave freely from their storage read to their storage write;
\* what a handler does after its write (mirror, menus, broadcast, response)
\* neither reads nor writes storage, so it is run here before the others take
\* their next step: every order of storage reads and writes of Next is kept
NextRace ==
    \/ \E s \in Slots :
          (\A t \in Slots \ {s} : ~PastStorage(req[t])) /\ Start(s)
    \/ \E s \in Slots :
          (\A t \in Slots \ {s} : ~PastStorage(req[t])) /\ Step(s)

SpecRace == InitRace /\ [][NextRace]_vars

\* one request at a time, with every platform call free to be rejected
Fails(s) ==
    \/ StorageGetFails(s)
    \/ StorageSetFails(s)
    \/ MenusRemoveAllFails(s)
    \/ MenusCreateParentFails(s)
    \/ MenusGetShortcutsFails(s)
    \/ MenusCreateChildFails(s)
    \/ TabsQueryFails(s)

NextFault ==
    \/ \E s \in Slots : Quiescent /\ Start(s)
    \/ \E s \in Slots : Quiescent /\ StartGetColors(s)
    \/ \E s \in Slots : Quiescent /\ StartOtherAction(s)
    \/ \E s \in Slots : Step(s)
    \/ \E s \in Slots : Fails(s)

SpecFault == Init /\ [][NextFault]_vars

\* the options page has added a third colour to the collection of an older
\* version before the initial load has numbered its two colours
PartlyNumbered == Append(Legacy(2), NewColorObj(3, 3, PaletteColor(3)))

InitLoad ==
    /\ Started({Stored(0), Legacy(2), PartlyNumbered}, {Tabs \ {1}})
    /\ local = NoPages

\* as SpecFault, the initial load finding any of these collections
SpecLoad == InitLoad /\ [][NextFault]_vars

\* collections that fill no, some and all of the ten shortcut positions
InitUI ==
    /\ Started({Stored(0), Legacy(2), Stored(7), Stored(10)}, {Tabs \ {1}})
    /\ local = NoPages

UIStep(s) ==
    \/ CommandAfterQuery(s)
    \/ HighlightSend(s)
    \/ ActivatedAfterGetShortcuts(s)

\* requests, shortcut commands and tab activations one at a time; a menu
\* click whenever the menu shows the entry; the user rebinds at any time
NextUI ==
    \/ \E s \in Slots : Quiescent /\ Start(s)
    \/ \E s \in Slots : Quiescent /\ StartCommand(s)
    \/ \E s \in Slots : Quiescent /\ StartTabActivated(s)
    \/ \E s \in Slots : StartClick(s)
    \/ Rebind
    \/ \E s \in Slots : Step(s)
    \/ \E s \in Slots : UIStep(s)

SpecUI == InitUI /\ [][NextUI]_vars

\* tabs.onActivated fires, as often as the user changes tabs
TabActivated(s) ==
    /\ FreeSlot(s)
    /\ req' = [t \in Slots |->
                 IF t = s THEN [Idle EXCEPT !.action = "tabActivated",
                                            !.pc = "getShortcuts"]
                 ELSE IF req[t].pc = "done" THEN Idle ELSE req[t]]
    /\ UNCHANGED <<storage, currentColors, storedShortcuts, menus, bindings,
                   listeners, clock, inbox, started, local>>
    /\ CallsStep

\* the continuations of the initial load and of the tab listener; the menu
\* backend may reject the calls
WatchStep(s) ==
    \/ StorageGet(s)
    \/ LoadAfterGet(s)
    \/ ActivatedAfterGetShortcuts(s)
    \/ MenusRemoveAll(s)
    \/ MenusRemoveAllFails(s)
    \/ MenusCreateParent(s)
    \/ MenusCreateParentFails(s)
    \/ MenusGetShortcuts(s)
    \/ MenusCreateChild(s)
    \/ MenusCreateChildFails(s)

InitWatch == Started({Stored(0), Stored(2)}, {Tabs \ {1}}) /\ local = NoPages

\* tab activations interleave with each other and with the initial load;
\* the user rebinds a bounded number of times
NextWatch ==
    \/ \E s \in Slots : TabActivated(s)
    \/ Rebind
    \/ \E s \in Slots : WatchStep(s)

\* every pending continuation runs; tabs keep being activated; removeAll is
\* not rejected for ever
SpecWatch ==
    /\ InitWatch /\ [][NextWatch]_vars
    /\ \A s \in Slots : WF_vars(WatchStep(s))
    /\ SF_vars(\E s \in Slots : TabActivated(s))
    /\ SF_vars(\E s \in Slots : MenusRemoveAll(s))

\* the same, each tab activation handled to completion before the next
NextWatchSeq ==
    \/ \E s \in Slots : Quiescent /\ TabActivated(s)
    \/ Rebind
    \/ \E s \in Slots : WatchStep(s)

SpecWatchSeq == InitWatch /\ [][NextWatchSeq]_vars

\* requests, tab activations and rebinds arrive whenever they like while the
\* initial load runs: their rebuilds interleave at every await, and the menu
\* backend rejects nothing but a duplicate id or a child of a missing parent
NextMenus ==
    \/ \E s \in Slots : Start(s)
    \/ \E s \in Slots : StartTabActivated(s)
    \/ Rebind
    \/ \E s \in Slots : Step(s)
    \/ \E s \in Slots : ActivatedAfterGetShortcuts(s)

SpecMenus == Init /\ [][NextMenus]_vars

\* the requests about a page's highlights interleave at their awaits while
\* the initial load of an empty palette runs
\* ---------------------------------------------- reading and deleting pages
\* onMessage, action getHighlights, up to storage.local.get([message.url])
StartGetHighlights(s) ==
    \E url \in UrlInputs :
        /\ Launch(s, [Idle EXCEPT !.action = "getHighlights",
                                  !.pc = "hlGetOne", !.url = url])
        /\ UNCHANGED <<storage, currentColors, storedShortcuts, menus,
                       bindings, listeners, clock, inbox, local>>
        /\ CallsStep

\* the get takes effect; sendResponse({ highlights: result[url] || [] })
LocalGetOne(s) ==
    LET p == req[s] IN
    /\ p.pc = "hlGetOne"
    /\ InOrder(s)
    /\ Set(s, Respond(p, [highlights |-> Get(p.url)]))
    /\ UNCHANGED <<storage, currentColors, storedShortcuts, menus, bindings,
                   listeners, clock, inbox, started, local>>
    /\ CallsStep

\* key.endsWith('_meta')
EndsWithMeta(key) == Len(key) > 0 /\ key[Len(key)] = "_meta"

\* the keys the loops over storage.local.get(null) take for pages: not
\* customColors (kept outside items), an array that is not empty (the values
\* under the other keys are the arrays written at lines 508 and 541), not a
\* key ending in _meta
PageKeys(items) ==
    {key \in DOMAIN items : ~EndsWithMeta(key) /\ Len(items[key]) > 0}

\* result[metaKey] || {}, with 0 for the missing title and lastUpdated
MetaOf(items, url) ==
    IF MetaKey(url) \in DOMAIN items THEN items[MetaKey(url)]
    ELSE [title |-> 0, lastUpdated |-> 0]

\* the record pushed to pages
PageOf(items, url) ==
    [url |-> url, highlights |-> items[url],
     highlightCount |-> Len(items[url]),
     title |-> MetaOf(items, url).title,
     lastUpdated |-> MetaOf(items, url).lastUpdated]

\* pages.sort: the newest lastUpdated first, the pages without one last.
\* The sort is stable, so pages the comparator does not tell apart stay in
\* the order of the keys of the get(null) result, an order storage.local
\* does not record here: every order of such pages is an outcome
SortPages(items, urls) ==
    {pages \in [1..Cardinality(urls) -> {PageOf(items, url) : url \in urls}] :
        /\ \A i, j \in 1..Cardinality(urls) :
              i # j => pages[i].url # pages[j].url
        /\ \A i, j \in 1..Cardinality(urls) :
              i < j => pages[i].lastUpdated >= pages[j].lastUpdated}

\* keysToDelete: key and `${key}_meta` of every page
KeysToDelete(items) ==
    PageKeys(items) \cup {MetaKey(key) : key \in PageKeys(items)}

\* onMessage, action getAllHighlightedPages, up to storage.local.get(null)
StartGetAllHighlightedPages(s) ==
    /\ Launch(s, [Idle EXCEPT !.action = "getAllHighlightedPages",
                              !.pc = "hlGetAll"])
    /\ UNCHANGED <<storage, currentColors, storedShortcuts, menus, bindings,
                   listeners, clock, inbox, local>>
    /\ CallsStep

\* onMessage, action deleteAllHighlightedPages, up to storage.local.get(null)
StartDeleteAllHighlightedPages(s) ==
    /\ Launch(s, [Idle EXCEPT !.action = "deleteAllHighlightedPages",
                              !.pc = "hlGetAll"])
    /\ UNCHANGED <<storage, currentColors, storedShortcuts, menus, bindings,
                   listeners, clock, inbox, local>>
    /\ CallsStep

\* storage.local.get(null) takes effect: getAllHighlightedPages answers with
\* the sorted pages; deleteAllHighlightedPages removes the keys it found, or
\* answers at once when it found none
LocalGetAll(s) ==
    LET p == req[s] IN
    /\ p.pc = "hlGetAll"
    /\ InOrder(s)
    /\ IF p.action = "getAllHighlightedPages"
       THEN \E pages \in SortPages(local, PageKeys(local)) :
               Set(s, Respond(p, [success |-> TRUE, pages |-> pages]))
       ELSE Set(s, IF KeysToDelete(local) # {}
                   THEN [p EXCEPT !.keys = KeysToDelete(local),
                                  !.pc = "hlRemoveAll"]
                   ELSE Respond(p, [success |-> TRUE, deletedCount |-> 0]))
    /\ UNCHANGED <<storage, currentColors, storedShortcuts, menus, bindings,
                   listeners, clock, inbox, started, local>>
    /\ CallsStep

\* storage.local.remove(keysToDelete) takes effect; sendResponse
LocalRemoveAll(s) ==
    LET p == req[s] IN
    /\ p.pc = "hlRemoveAll"
    /\ InOrder(s)
    /\ LocalRemoveKeys(p.keys)
    /\ Set(s, Respond([p EXCEPT !.writes = @ + 1],
                      [success |-> TRUE,
                       deletedCount |-> Cardinality(p.keys) \div 2]))
    /\ UNCHANGED <<currentColors, storedShortcuts, menus, bindings,
                   listeners, clock, inbox, started>>
    /\ CallsStep

StartHighlights(s) ==
    \/ StartSaveHighlights(s)
    \/ StartDeleteHighlight(s)
    \/ StartClearAllHighlights(s)

HighlightsStep(s) ==
    \/ SaveAfterQuery(s)
    \/ LocalSetData(s)
    \/ LocalGetMeta(s)
    \/ LocalSetMeta(s)
    \/ LocalGetData(s)
    \/ LocalRemove(s)
    \/ AfterCleanup(s)
    \/ NotifyQuery(s)
    \/ NotifySend(s)
    \/ HighlightsRespond(s)

InitialLoadStep(s) ==
    \/ StorageGet(s)
    \/ LoadAfterGet(s)
    \/ MenusRemoveAll(s)
    \/ MenusCreateParent(s)
    \/ MenusGetShortcuts(s)

InitHighlights == Started({Stored(0)}, {Tabs \ {1}}) /\ local = NoPages

NextHighlights ==
    \/ \E s \in Slots : StartHighlights(s)
    \/ \E s \in Slots : HighlightsStep(s)
    \/ \E s \in Slots : InitialLoadStep(s)

SpecHighlights == InitHighlights /\ [][NextHighlights]_vars

\* the same, each request handled to completion before the next begins
NextHighlightsSeq ==
    \/ \E s \in Slots : Quiescent /\ StartHighlights(s)
    \/ \E s \in Slots : HighlightsStep(s)
    \/ \E s \in Slots : InitialLoadStep(s)

SpecHighlightsSeq == InitHighlights /\ [][NextHighlightsSeq]_vars

\* every request about colours and about highlights, one at a time, over an
\* empty, a legacy and a two-colour collection
StartPages(s) ==
    \/ StartGetHighlights(s)
    \/ StartGetAllHighlightedPages(s)
    \/ StartDeleteAllHighlightedPages(s)

PagesStep(s) ==
    \/ LocalGetOne(s)
    \/ LocalGetAll(s)
    \/ LocalRemoveAll(s)

InitKeys ==
    /\ Started({Stored(0), Legacy(2), Stored(2)}, {Tabs \ {1}})
    /\ local = NoPages

NextKeys ==
    \/ \E s \in Slots : Quiescent /\ Start(s)
    \/ \E s \in Slots : Quiescent /\ StartGetColors(s)
    \/ \E s \in Slots : Quiescent /\ StartHighlights(s)
    \/ \E s \in Slots : Quiescent /\ StartPages(s)
    \/ \E s \in Slots : Step(s)
    \/ \E s \in Slots : HighlightsStep(s)
    \/ \E s \in Slots : PagesStep(s)

SpecKeys == InitKeys /\ [][NextKeys]_vars

\* ------------------------------------------------------------------ claims
\* a handler of the message listener has answered its request
Answered(p) ==
    p.pc = "done" /\ p.action \in BackgroundActions \ {"startup"}

SameColor(a, b) == ToLowerCase(a) = ToLowerCase(b)

\* C1: when requests are handled one at a time, after each addColor and
\* deleteColor request the record at index i of the persisted collection has
\* colorNumber i + 1, so the colorNumber values are exactly 1..size.
C1_NumbersAreDense ==
    \A s \in Slots :
        (Answered(req[s]) /\ req[s].action \in {"addColor", "deleteColor"})
        => /\ \A k \in 1..Len(storage) : storage[k].colorNumber = k
           /\ {storage[k].colorNumber : k \in 1..Len(storage)}
                 = 1..Len(storage)

\* a deleteColor has removed a record that was not the last one
C1_Witness ==
    \E s \in Slots :
        /\ Answered(req[s]) /\ req[s].action = "deleteColor"
        /\ req[s].writes = 1
        /\ Len(storage) >= 2
        /\ storage[1].id # req[s].colorId
        /\ storage[2].id = CustomId(3)

\* C2 (as claimed): an addColor whose colour matches a stored colour without
\* regard to case is answered success false, and nothing is written, rebuilt
\* or broadcast.
C2_DuplicateIsRefused ==
    \A s \in Slots :
        (/\ Answered(req[s]) /\ req[s].action = "addColor"
         /\ req[s].color # <<>>
         /\ req[s].writes = 0
         /\ ~LimitReached(req[s].customColors)
         /\ \E k \in 1..Len(req[s].customColors) :
                SameColor(req[s].customColors[k].color, req[s].color))
        => /\ req[s].response.success = FALSE
           /\ storage = req[s].customColors
           /\ req[s].menuCalls = 0
           /\ req[s].attempts = <<>>

\* C3: every step of an addColor that finds MAX_CUSTOM_COLORS records stored
\* leaves the persisted collection, the mirror and the menus unchanged, makes
\* no storage write, menu call or delivery, and its answer is success false
\* with an error.
C3_AtLimit(s) ==
    /\ req[s].action = "addColor"
    /\ \/ req[s].pc = "get" /\ Len(storage) >= MAX_CUSTOM_COLORS
       \/ req[s].pc = "gotten" /\ Len(req[s].customColors) >= MAX_CUSTOM_COLORS

C3_Refused(s) ==
    /\ UNCHANGED <<storage, currentColors, menus>>
    /\ Len(storage') = MAX_CUSTOM_COLORS
    /\ req'[s].pc \in {"gotten", "done"}
    /\ req'[s].writes = 0 /\ req'[s].menuCalls = 0 /\ req'[s].attempts = <<>>
    /\ req'[s].pc = "done"
          => /\ req'[s].response.success = FALSE
             /\ "error" \in DOMAIN req'[s].response

C3_AddAtLimitRefused ==
    [][\A s \in Slots : C3_AtLimit(s) => C3_Refused(s)]_vars

\* an addColor has been refused with 20 records stored
C3_Witness ==
    \E s \in Slots :
        /\ Answered(req[s]) /\ req[s].action = "addColor"
        /\ req[s].color # <<>>
        /\ req[s].response.success = FALSE
        /\ Len(storage) = MAX_CUSTOM_COLORS
        /\ Len(req[s].customColors) = MAX_CUSTOM_COLORS

\* C4: the write of a deleteColor that removes the record at position k of N
\* leaves N - 1 records: those before k are unchanged, the one that was at
\* j > k is at j - 1 with colorNumber j - 1 and is otherwise unchanged.
C4_Removes(s) ==
    LET N == Len(storage) IN
    \E k \in 1..N :
        /\ storage[k].id = req[s].colorId
        /\ Len(storage') = N - 1
        /\ \A j \in 1..(k - 1) : storage'[j] = storage[j]
        /\ \A j \in (k + 1)..N :
               storage'[j - 1] = [storage[j] EXCEPT !.colorNumber = j - 1]

C4_DeleteShiftsDown ==
    [][\A s \in Slots :
          (/\ req[s].action = "deleteColor"
           /\ req[s].pc = "set" /\ req'[s].pc = "written")
          => C4_Removes(s)]_vars

\* the second of at least three records has been deleted
C4_Witness ==
    \E s \in Slots :
        /\ req[s].action = "deleteColor" /\ req[s].pc = "written"
        /\ req[s].colorId = CustomId(2)
        /\ Len(storage) >= 2
        /\ storage[1].id = CustomId(1) /\ storage[1].colorNumber = 1
        /\ storage[2].id = CustomId(3) /\ storage[2].colorNumber = 2

\* C5: a clearCustomColors that read an empty collection answers success with
\* noCustomColors and makes no storage write, menu call or delivery; one that
\* read a non-empty collection persists the empty collection, empties the
\* mirror and answers success without noCustomColors.
C5_ClearCustomColors ==
    \A s \in Slots :
        (Answered(req[s]) /\ req[s].action = "clearCustomColors")
        => IF Len(req[s].customColors) = 0
           THEN /\ req[s].response.success = TRUE
                /\ "noCustomColors" \in DOMAIN req[s].response
                /\ req[s].response.noCustomColors = TRUE
                /\ req[s].writes = 0
                /\ req[s].menuCalls = 0
                /\ req[s].attempts = <<>>
           ELSE /\ req[s].response.success = TRUE
                /\ "noCustomColors" \notin DOMAIN req[s].response
                /\ req[s].writes = 1
                /\ storage = <<>>
                /\ currentColors = <<>>

\* a non-empty collection has been cleared
C5_Witness ==
    \E s \in Slots :
        /\ Answered(req[s]) /\ req[s].action = "clearCustomColors"
        /\ Len(req[s].customColors) >= 2
        /\ storage = <<>>

\* C6: every step of a deleteColor that carries no colorId, or a colorId that
\* no stored record has, leaves the persisted collection, the mirror and the
\* menus unchanged and delivers nothing, and its answer is success false with
\* an error.
C6_NoSuchColor(s) ==
    /\ req'[s] # req[s]
    /\ req'[s].action = "deleteColor"
    /\ req'[s].writes = 0
    /\ \A k \in 1..Len(storage) : storage[k].id # req'[s].colorId

C6_Rejected(s) ==
    /\ UNCHANGED <<storage, currentColors, menus>>
    /\ req'[s].pc \in {"get", "gotten", "done"}
    /\ req'[s].menuCalls = 0 /\ req'[s].attempts = <<>>
    /\ req'[s].pc = "done"
          => /\ req'[s].response.success = FALSE
             /\ "error" \in DOMAIN req'[s].response

C6_DeleteUnknownRejected ==
    [][\A s \in Slots : C6_NoSuchColor(s) => C6_Rejected(s)]_vars

\* a deleteColor for an id that no record of a non-empty collection has
C6_Witness ==
    \E s \in Slots :
        /\ Answered(req[s]) /\ req[s].action = "deleteColor"
        /\ req[s].colorId = CustomId(0)
        /\ req[s].response.success = FALSE
        /\ Len(storage) >= 2

\* C7 (as claimed): no two mutation requests are at the same time between
\* their read of the persisted collection and their write of it.
ReadNotWritten(p) ==
    p.action \in MutationActions /\ p.pc \in {"gotten", "set"}

C7_OneMutationAtATime ==
    \A s, t \in Slots :
        (s # t /\ ReadNotWritten(req[s])) => ~ReadNotWritten(req[t])

\* C8 (as claimed): once a colour request has been answered with success and
\* nothing else has acted since, the mirror equals the persisted collection.
C8_MirrorIsStorage ==
    \A s \in Slots :
        (Answered(req[s]) /\ req[s].response.success = TRUE)
        => currentColors = storage

\* C9: however requests and options-page operations interleave, the persisted
\* collection has at most MAX_CUSTOM_COLORS records, no two of them with
\* colours that are equal without regard to case.
C9_StorageBoundedAndDistinct ==
    /\ Len(storage) <= MAX_CUSTOM_COLORS
    /\ \A j, k \in 1..Len(storage) :
           j # k => ~SameColor(storage[j].color, storage[k].color)

\* two addColor requests for one colour, written "#fa" and "#FA", have both
\* read a collection one short of the maximum before either wrote, and both
\* have written
C9_Witness ==
    \E s, t \in Slots :
        /\ s # t
        /\ req[s].action = "addColor" /\ req[t].action = "addColor"
        /\ req[s].color # req[t].color
        /\ SameColor(req[s].color, req[t].color)
        /\ req[s].writes = 1 /\ req[t].writes = 1
        /\ Len(storage) = MAX_CUSTOM_COLORS

\* C10 (as claimed): when the broadcast of a mutation that was written ends,
\* it has made one delivery attempt per open tab, in the order of the
\* enumeration, whether or not earlier deliveries were rejected, and each
\* attempt carried the whole persisted collection.
C10_BroadcastEnds(s) ==
    /\ req[s].action \in MutationActions /\ req[s].writes = 1
    /\ req[s].pc # "done" /\ req'[s].pc = "done"

C10_OneAttemptPerTab ==
    [][\A s \in Slots :
          C10_BroadcastEnds(s)
          => /\ req'[s].tabs = OpenTabs
             /\ Len(req'[s].attempts) = Len(req'[s].tabs)
             /\ \A j \in 1..Len(req'[s].tabs) :
                    /\ req'[s].attempts[j].tab = req'[s].tabs[j]
                    /\ req'[s].attempts[j].colors = storage']_vars

\* C11 (as claimed): every request the listener has finished handling has
\* been answered; an exception thrown while handling it is answered with
\* success false and the error's message.
C11_EveryRequestAnswered ==
    \A s \in Slots :
        (req[s].pc = "done" /\ req[s].action \in MessageActions \cup {"other"})
        => "pending" \notin DOMAIN req[s].response

\* C12: a mutation whose storage write succeeded answers success true, or,
\* when commands.getAll or tabs.query was rejected, with that error; rejected
\* removeAll, create and sendMessage calls never turn the answer into a
\* failure.
C12_SuccessDespiteMenuAndDeliveryErrors ==
    \A s \in Slots :
        (/\ req[s].pc = "done" /\ req[s].action \in MutationActions
         /\ req[s].writes = 1)
        => \/ req[s].response.success = TRUE
           \/ /\ "error" \in DOMAIN req[s].response
              /\ req[s].response.error \in {"commands.getAll", "tabs.query"}

\* a deleteColor has answered success although removeAll was rejected, the
\* stale entry of the deleted colour is still in the menu, and the delivery
\* to the first tab was rejected
C12_Witness ==
    \E s \in Slots :
        /\ req[s].pc = "done" /\ req[s].action = "deleteColor"
        /\ req[s].writes = 1
        /\ req[s].response.success = TRUE
        /\ MenuId(req[s].colorId) \in MenuIds(menus)
        /\ Len(req[s].attempts) >= 1 /\ req[s].attempts[1].ok = FALSE

\* C13: for a shortcut command received while a tab is active,
\* highlight_yellow, _green, _blue, _pink, _orange stand for mirror indices
\* 0..4 and highlight_custom_k for index 4 + k; exactly one highlight
\* instruction with the colour at that index goes to the active tab when the
\* mirror has more entries than the index, and nothing is dispatched when it
\* has not.
C13_Index(command) ==
    CASE command = <<"highlight_", "yellow">> -> 0
      [] command = <<"highlight_", "green">> -> 1
      [] command = <<"highlight_", "blue">> -> 2
      [] command = <<"highlight_", "pink">> -> 3
      [] command = <<"highlight_", "orange">> -> 4
      [] OTHER -> 4 + command[3]

C13_ShortcutResolvesByPosition ==
    \A s \in Slots :
        (/\ req[s].action = "command" /\ req[s].pc = "done"
         /\ req[s].tabs # <<>>
         /\ req[s].command[1] = "highlight_")
        => LET index == C13_Index(req[s].command) IN
           IF Len(currentColors) > index
           THEN /\ Len(req[s].attempts) = 1
                /\ req[s].attempts[1].tab = req[s].tabs[1]
                /\ req[s].attempts[1].action = "highlight"
                /\ req[s].attempts[1].color = currentColors[index + 1].color
           ELSE req[s].attempts = <<>>

\* highlight_custom_5 has sent the tenth colour of the mirror
C13_Witness ==
    \E s \in Slots :
        /\ req[s].action = "command" /\ req[s].pc = "done"
        /\ req[s].command = <<"highlight_", "custom_", 5>>
        /\ Len(currentColors) = 10
        /\ Len(req[s].attempts) = 1
        /\ req[s].attempts[1].color = currentColors[10].color

\* C14: a click on the entry highlight-<id> makes the handler send one
\* highlight instruction, to the tab of the click, with the colour of the
\* first mirror record whose id is <id>, exactly when the mirror has such a
\* record at the click; a click on the parent entry or on a stale entry sends
\* nothing; the send, delivered or rejected, changes no other state.
C14_Clicked(s) ==
    /\ req'[s] # req[s]
    /\ req'[s].action = "click"
    /\ req'[s].attempts = <<>>

C14_Resolved(s) ==
    LET menuId == req'[s].menuItemId
        holders == {k \in 1..Len(currentColors) :
                      <<"highlight-">> \o currentColors[k].id = menuId}
    IN
    IF menuId # <<"highlight-", "text">> /\ holders # {}
    THEN /\ req'[s].pc = "sendHighlight"
         /\ \E k \in holders :
               /\ \A j \in holders : k <= j
               /\ req'[s].colors = currentColors[k].color
    ELSE req'[s].pc = "done"

C14_Sent(s) ==
    /\ req[s].action = "click" /\ req[s].pc = "sendHighlight"
    /\ req'[s] # req[s]

C14_Delivery(s) ==
    /\ req'[s].pc = "done"
    /\ Len(req'[s].attempts) = 1
    /\ req'[s].attempts[1].tab = req[s].tab
    /\ req'[s].attempts[1].action = "highlight"
    /\ req'[s].attempts[1].color = req[s].colors
    /\ UNCHANGED <<storage, currentColors, storedShortcuts, menus, bindings,
                   local>>

C14_ClickResolvesById ==
    [][\A s \in Slots :
          /\ C14_Clicked(s) => C14_Resolved(s)
          /\ C14_Sent(s) => C14_Delivery(s)]_vars

\* a click on the entry of a colour that a deleteColor in progress has
\* already taken out of the mirror has sent nothing
C14_StaleWitness ==
    \E s, t \in Slots :
        /\ req[s].action = "click" /\ req[s].pc = "done"
        /\ req[s].menuItemId # ParentMenuId
        /\ req[s].attempts = <<>>
        /\ req[t].action = "deleteColor" /\ req[t].pc = "removeAll"

\* C16: the step of the tab-activation handler that follows the fetch of the
\* bindings enters the menu rebuild exactly when some highlight_ command is
\* bound now and absent from the snapshot, in the snapshot and unbound now,
\* or bound to another key than the snapshot shows; otherwise the handler
\* ends, and in either case this step changes neither menus nor snapshot.
C16_Bound(command) == command[1] = "highlight_" /\ bindings[command] # <<>>

C16_Differ ==
    \/ \E command \in DOMAIN bindings :
          C16_Bound(command) /\ command \notin DOMAIN storedShortcuts
    \/ \E command \in DOMAIN storedShortcuts : ~C16_Bound(command)
    \/ \E command \in DOMAIN storedShortcuts :
          /\ C16_Bound(command)
          /\ storedShortcuts[command]
                # <<" (">> \o bindings[command] \o <<")">>

C16_Compared(s) ==
    /\ req[s].action = "tabActivated" /\ req[s].pc = "getShortcuts"
    /\ req'[s] # req[s]

C16_RebuildIffChanged ==
    [][\A s \in Slots :
          C16_Compared(s)
          => /\ UNCHANGED <<menus, storedShortcuts>>
             /\ IF C16_Differ THEN req'[s].pc = "removeAll"
                ELSE req'[s].pc = "done"]_vars

\* a tab activation has started a rebuild because a command of the snapshot
\* is no longer bound
C16_Witness ==
    \E s \in Slots :
        /\ req[s].action = "tabActivated" /\ req[s].pc = "removeAll"
        /\ \E command \in DOMAIN storedShortcuts : bindings[command] = <<>>

\* C15: when requests are handled one at a time and the menu backend rejects
\* no call (so no two mirror records share an id), after an addColor,
\* deleteColor, clearCustomColors or customColorsUpdated that rebuilt the
\* menu the entries are, in order, highlight-text and one child
\* highlight-<id> of it per mirror record and nothing else.
C15_DistinctIds ==
    \A j, k \in 1..Len(currentColors) :
        j # k => currentColors[j].id # currentColors[k].id

C15_MenuMirrorsColors ==
    \A s \in Slots :
        (/\ Answered(req[s]) /\ req[s].response.success = TRUE
         /\ req[s].menuCalls > 0
         /\ C15_DistinctIds)
        => /\ Len(menus) = Len(currentColors) + 1
           /\ menus[1].id = <<"highlight-", "text">>
           /\ \A k \in 1..Len(currentColors) :
                 /\ menus[k + 1].id = <<"highlight-">> \o currentColors[k].id
                 /\ menus[k + 1].parentId = <<"highlight-", "text">>

\* a deleteColor has rebuilt a menu that had shown the deleted colour
C15_Witness ==
    \E s \in Slots :
        /\ Answered(req[s]) /\ req[s].action = "deleteColor"
        /\ req[s].response.success = TRUE
        /\ req[s].menuCalls > 2
        /\ Len(menus) = Len(currentColors) + 1
        /\ MenuId(req[s].colorId) \notin MenuIds(menus)

\* C17 (as claimed): at the step that answers a saveHighlights with an empty
\* list, a deleteHighlight that removed the last group or a
\* clearAllHighlights, storage holds neither the key <url> nor the key
\* <url>_meta; stated here in the weaker form that lets another request have
\* stored the page again meanwhile: the metadata key is not there without
\* the highlights key. The url is that of a page (the key of the colour
\* collection used as a url is the subject of C30).
C17_Emptied(p) ==
    /\ p.pc = "done"
    /\ p.action \in {"saveHighlights", "deleteHighlight", "clearAllHighlights"}
    /\ p.response # NoResponse
    /\ p.response.success = TRUE
    /\ p.highlights = <<>>

C17_EmptyPageLeavesNoKeys ==
    [][\A s \in Slots :
          (/\ req[s].pc = "hlRespond" /\ C17_Emptied(req'[s])
           /\ req[s].url # CustomColorsKey)
          => \/ req[s].url \notin DOMAIN local'
                /\ MetaKey(req[s].url) \notin DOMAIN local'
             \/ req[s].url \in DOMAIN local']_vars

\* C18 (as claimed): the response to the originator of addColor, deleteColor
\* or clearCustomColors does not wait on the deliveries of the broadcast:
\* whenever such a request has a tabs.sendMessage outstanding, its response
\* has already been sent.
C18_ResponseDoesNotWaitOnDelivery ==
    \A s \in Slots :
        (req[s].action \in MutationActions /\ req[s].pc = "send")
        => req[s].response # NoResponse

\* C19 (as claimed): an addColor that stores a colour appends to the
\* persisted collection of size N exactly one record with colorNumber N + 1,
\* nameKey customColor and the requested colour, the N records before it
\* unchanged, and its response is success with the full updated collection.
C19_Appended(s) ==
    /\ Len(storage') = Len(storage) + 1
    /\ SubSeq(storage', 1, Len(storage)) = storage
    /\ storage'[Len(storage')].colorNumber = Len(storage) + 1
    /\ storage'[Len(storage')].nameKey = "customColor"
    /\ storage'[Len(storage')].color = req[s].color

C19_Returned(s) ==
    /\ req'[s].response.success = TRUE
    /\ req'[s].response.colors = storage'

C19_AddAppendsAndReturnsAll ==
    [][\A s \in Slots :
          /\ (req[s].action = "addColor" /\ req[s].pc = "set"
                 /\ req'[s].pc = "written")
             => C19_Appended(s)
          /\ (req[s].action = "addColor" /\ req[s].writes = 1
                 /\ req[s].pc # "done" /\ req'[s].pc = "done")
             => C19_Returned(s)]_vars

\* C20 (as claimed): no two records of the persisted collection have the
\* same id, and so no two child menu ids derived from it are the same.
C20_IdsAreUnique ==
    \A i, j \in 1..Len(storage) :
        i # j => /\ storage[i].id # storage[j].id
                 /\ MenuId(storage[i].id) # MenuId(storage[j].id)

\* C21, the parts of the claim: loadCustomColors gives colorNumber index + 1
\* to exactly the records it read without a colorNumber and leaves the others
\* as read; it writes the collection back if and only if it numbered a
\* record; it replaces the mirror with the resulting collection; when the
\* storage read is rejected the mirror stays as it was.
C21_Loads(s) == req[s].action \in {"startup", "customColorsUpdated"}

C21_Lacks(c) == c.colorNumber = 0

C21_Repaired(read, result) ==
    /\ Len(result) = Len(read)
    /\ \A k \in 1..Len(read) :
          result[k] = IF C21_Lacks(read[k])
                      THEN [read[k] EXCEPT !.colorNumber = k]
                      ELSE read[k]

C21_AfterRead(s) ==
    /\ req[s].customColors = storage
    /\ C21_Repaired(storage, req'[s].customColors)
    /\ IF \E k \in 1..Len(storage) : C21_Lacks(storage[k])
       THEN req'[s].pc = "set" /\ currentColors' = currentColors
       ELSE /\ req'[s].pc = "removeAll" /\ req'[s].writes = 0
            /\ currentColors' = req'[s].customColors
            /\ storage' = storage

C21_AfterWrite(s) ==
    /\ req'[s].pc = "removeAll" /\ req'[s].writes = 1
    /\ currentColors' = req[s].customColors
    /\ storage = req[s].customColors

\* the storage.local.set of the write-back was rejected
C21_WriteRejected(s) ==
    req[s].pc = "set" /\ req'[s].pc \notin {"set", "written"}

\* the steps of a load other than a rejected write-back
C21_Steps(s) ==
    /\ (req[s].pc = "gotten" /\ req'[s].pc # "gotten")
       => C21_AfterRead(s)
    /\ (req[s].pc = "set" /\ req'[s].pc = "written")
       => storage' = req[s].customColors
    /\ (req[s].pc = "written" /\ req'[s].pc # "written")
       => C21_AfterWrite(s)
    /\ (req[s].pc = "get" /\ req'[s].pc \notin {"get", "gotten"})
       => currentColors' = currentColors

\* C21 (as claimed): loadCustomColors numbers the unnumbered records it read,
\* writes back if and only if it numbered one, and, unless the storage read
\* was rejected, replaces the mirror with the resulting collection: also
\* when the write-back was rejected.
C21_LoadRepairsAndMirrors ==
    [][\A s \in Slots :
          C21_Loads(s)
          => /\ C21_Steps(s)
             /\ C21_WriteRejected(s)
                => currentColors' = req[s].customColors]_vars

\* C21 (amended): loadCustomColors numbers the unnumbered records it read,
\* writes back if and only if it numbered one, and replaces the mirror with
\* the resulting collection; when the storage read or the write-back is
\* rejected the mirror stays as it was, and a rejected write-back leaves
\* storage as it was read.
C21_LoadMirrorsUnlessRejected ==
    [][\A s \in Slots :
          C21_Loads(s)
          => /\ C21_Steps(s)
             /\ C21_WriteRejected(s)
                => /\ currentColors' = currentColors
                   /\ storage' = storage
                   /\ req'[s].writes = 0]_vars

\* the initial load has numbered the first two of three records, written the
\* collection back and made it the mirror
C21_Witness ==
    \E s \in Slots :
        /\ C21_Loads(s) /\ req[s].pc = "removeAll" /\ req[s].writes = 1
        /\ Len(storage) = 3
        /\ storage = Renumber(PartlyNumbered)
        /\ currentColors = storage

\* C22 (as claimed): every record of the persisted collection holds its
\* colour in uppercase, whether the background addColor handler or the
\* options page stored it.
C22_StoredColorsAreUppercase ==
    \A k \in 1..Len(storage) :
        storage[k].color = ToUpperCase(storage[k].color)

\* C23 (as claimed): when two addColor requests for different colours have
\* both been answered with success after storing their colour and nothing is
\* in flight, the persisted collection holds both colours, under different
\* colorNumbers.
C23_Acknowledged(s) ==
    /\ Answered(req[s]) /\ req[s].action = "addColor"
    /\ req[s].writes = 1
    /\ req[s].response.success = TRUE

C23_Holds(color) ==
    {k \in 1..Len(storage) : storage[k].color = color}

C23_NoAcknowledgedAddLost ==
    \A s, t \in Slots :
        (/\ s # t /\ Quiescent
         /\ C23_Acknowledged(s) /\ C23_Acknowledged(t)
         /\ ~SameColor(req[s].color, req[t].color))
        => \E i \in C23_Holds(req[s].color), j \in C23_Holds(req[t].color) :
              storage[i].colorNumber # storage[j].colorNumber

\* C24: once the bindings stay fixed, with tabs being activated again and
\* again and removeAll not rejected for ever, the snapshot storedShortcuts
\* becomes, and stays, what getCurrentShortcuts returns for the bindings; a
\* rebuild that returns because removeAll was rejected leaves the snapshot as
\* it was.
C24_Aborted(s) ==
    /\ req[s].pc = "removeAll"
    /\ req'[s].pc \notin {"removeAll", "createParent"}

C24_DriftIsReconciled ==
    /\ [][\A s \in Slots :
             C24_Aborted(s) => storedShortcuts' = storedShortcuts]_vars
    /\ <>[](storedShortcuts = getCurrentShortcuts(bindings))

\* after the user changed a binding, a tab activation has rebuilt the menu
\* and the snapshot is that of the bindings
C24_Witness ==
    \E s \in Slots :
        /\ req[s].action = "tabActivated" /\ req[s].pc = "done"
        /\ req[s].menuCalls >= 2
        /\ bindings # InitialBindings
        /\ storedShortcuts = getCurrentShortcuts(bindings)

\* C25 (as claimed): when a rebuild started by a tab activation that found
\* the shortcuts changed completes, the snapshot storedShortcuts is the
\* shortcuts that rebuild fetched; and a tab activation that finds the
\* shortcuts equal to the snapshot starts no rebuild. Tab activations arrive
\* whenever they like and their listeners interleave at their awaits.
C25_RebuildCompletes(s) ==
    /\ req[s].action = "tabActivated"
    /\ req[s].pc \in {"getAll", "createChild"}
    /\ req'[s].pc = "done"

C25_FindsUnchanged(s) ==
    /\ req[s].action = "tabActivated" /\ req[s].pc = "getShortcuts"
    /\ req'[s] # req[s]
    /\ getCurrentShortcuts(bindings) = storedShortcuts

C25_OneRebuildPerChange ==
    [][\A s \in Slots :
          /\ C25_RebuildCompletes(s)
             => storedShortcuts' = req'[s].commandShortcuts
          /\ C25_FindsUnchanged(s)
             => /\ req'[s].pc = "done" /\ req'[s].menuCalls = 0
                /\ UNCHANGED <<menus, storedShortcuts>>]_vars

\* C26 (as claimed): in every reachable state, whatever the interleaving of
\* requests and options-page writes, the mirror currentColors has at most
\* MAX_CUSTOM_COLORS records, no two with the same colorNumber and no two
\* with colours equal when case is ignored.
C26_MirrorIsWellFormed ==
    /\ Len(currentColors) <= MAX_CUSTOM_COLORS
    /\ \A j, k \in 1..Len(currentColors) :
          j # k => /\ currentColors[j].colorNumber
                         # currentColors[k].colorNumber
                   /\ ~SameColor(currentColors[j].color,
                                 currentColors[k].color)

\* C27 (as claimed): an addColor, deleteColor or clearCustomColors that is
\* answered with success false has changed nothing; stated here for the
\* persisted collection alone: such a request has not written it (every
\* write of these handlers stores a collection other than the one read).
C27_Refused(p) ==
    /\ Answered(p) /\ p.action \in MutationActions
    /\ p.response.success = FALSE

C27_FailureChangedNothing ==
    \A s \in Slots : C27_Refused(req[s]) => req[s].writes = 0

\* C28: the menu and the command listener agree on positions: for each index
\* i in 0..9 the command whose shortcut is appended to the title of child i
\* is the command that dispatches the colour of mirror record i; a child at
\* index 10 or above carries no shortcut and no command dispatches its
\* colour.
C28_CommandOfIndex(i) ==
    {command \in Commands : CommandPosition(command) = i + 1}

C28_Annotation(i, commandShortcuts) ==
    IF \E command \in C28_CommandOfIndex(i) : command \in DOMAIN commandShortcuts
    THEN commandShortcuts[CHOOSE command \in C28_CommandOfIndex(i) :
                              command \in DOMAIN commandShortcuts]
    ELSE <<>>

C28_NamesAgree ==
    /\ \A i \in 0..9 : C28_CommandOfIndex(i) = {CommandNameAt(i)}
    /\ \A i \in 10..(MAX_CUSTOM_COLORS - 1) :
          CommandNameAt(i) = <<>> /\ C28_CommandOfIndex(i) = {}

C28_MenuAndCommandsAgree ==
    /\ C28_NamesAgree
    /\ \A s \in Slots :
          req[s].pc = "createChild"
          => req[s].entry.title.shortcut
                = C28_Annotation(req[s].i, req[s].commandShortcuts)
    /\ \A s \in Slots :
          (req[s].action = "command" /\ req[s].pc = "done"
              /\ req[s].attempts # <<>>)
          => \E i \in 0..9 :
                /\ i < Len(currentColors)
                /\ CommandNameAt(i) = req[s].command
                /\ req[s].attempts[1].color = currentColors[i + 1].color

\* the sixth child is being created with the shortcut of highlight_custom_1
\* in its title
C28_Witness ==
    \E s \in Slots :
        /\ req[s].pc = "createChild" /\ req[s].i = 5
        /\ CustomCommandName(1) \in DOMAIN req[s].commandShortcuts
        /\ req[s].entry.title.shortcut
              = req[s].commandShortcuts[CustomCommandName(1)]

\* C29: rebuilds started by different requests, by the initial load and by
\* the tab listener interleave at their awaits; once nothing is in flight and
\* a menu has been built, the ids of the child entries are exactly
\* highlight-<id> for the ids of the mirror records.
C29_ChildIds == MenuIds(menus) \ {ParentMenuId}

C29_MirrorIds == {MenuId(currentColors[k].id) : k \in 1..Len(currentColors)}

C29_MenuConverges ==
    (Quiescent /\ menus # <<>>) => C29_ChildIds = C29_MirrorIds

\* a deleteColor left one record in the mirror and began its rebuild, an
\* addColor pushed a second record while that rebuild ran, the rebuild of the
\* deleteColor created both children, and everything has completed
C29_Witness ==
    /\ Quiescent
    /\ Len(currentColors) = 2
    /\ C29_ChildIds = C29_MirrorIds
    /\ \E s, t \in Slots :
          /\ req[s].action = "deleteColor" /\ req[s].pc = "done"
          /\ req[s].menuCalls = 4
          /\ req[t].action = "addColor" /\ req[t].pc = "done"
          /\ req[t].menuCalls > 0

\* C30 (as claimed): colour state and highlight state are independent. No
\* step of a getHighlights, saveHighlights, deleteHighlight,
\* clearAllHighlights, getAllHighlightedPages or deleteAllHighlightedPages
\* request, whatever its url, changes the persisted customColors collection
\* or the mirror; no step of a getColors, addColor, deleteColor,
\* clearCustomColors or customColorsUpdated request changes a <url> or
\* <url>_meta entry.
C30_HighlightActions ==
    {"getHighlights", "saveHighlights", "deleteHighlight",
     "clearAllHighlights", "getAllHighlightedPages",
     "deleteAllHighlightedPages"}

C30_ColorActions ==
    {"getColors", "addColor", "deleteColor", "clearCustomColors",
     "customColorsUpdated"}

C30_ColorsAndHighlightsIndependent ==
    [][\A s \in Slots :
          req'[s] # req[s] =>
             /\ req'[s].action \in C30_HighlightActions
                   => storage' = storage /\ currentColors' = currentColors
             /\ req'[s].action \in C30_ColorActions
                   => local' = local]_vars

\* C31 (as claimed): in every state with no request in flight, for every
\* page url the entry <url>_meta is in storage if and only if <url> holds a
\* highlight collection that is not empty, whatever saveHighlights,
\* deleteHighlight, clearAllHighlights and deleteAllHighlightedPages requests
\* have run, a saveHighlights that failed after its first write included.
C31_PageUrls == UrlInputs \ {CustomColorsKey}

C31_HasHighlights(url) == url \in DOMAIN local /\ Len(local[url]) > 0

C31_MetaIffHighlights ==
    Quiescent =>
       \A url \in C31_PageUrls :
          MetaKey(url) \in DOMAIN local <=> C31_HasHighlights(url)

====
